---- MODULE Spec2Model ----
(***************************************************************************)
(* The Gmail ingestion pipeline of the support inbox: handleGmailWebhook-   *)
(* Event and the data-layer functions it calls (createConversationMessage, *)
(* updateConversation, triggerEvent).  One webhook delivery is one handler  *)
(* invocation p; its awaits are the points where other invocations may run  *)
(* and where a rejected promise throws.                                     *)
(***************************************************************************)
EXTENDS Integers, Sequences, FiniteSets, TLC

\* ---------------------------------------------------------------- bounds
\* Gmail message ids, and messagesAdded entries of one fetched history, when
\* the deliveries vary in token, support-email record, cursors and responses.
WebhookMsgs == 2
WebhookBatch == 2
\* Webhook deliveries (handler invocations).
MaxDeliveries == 2
\* Rejected promises (database, provider or queue errors) injected in a run.
MaxFailures == 1
\* Conversations merged into another one.
MaxMerges == 1
\* Conversations and updateConversation calls of the update specification.
UpdateConvs == 2
MaxUpdates == 2
\* createConversationMessage calls of the message specification.
MaxCreated == 2
\* Messages of the conversation whose participants are extracted.
MaxParticipantMsgs == 2
\* Attachments of an email of the attachment specification.
MaxAttachments == 3
\* createAiDraft calls of the reply specification.
MaxDrafts == 3
\* Status changes by an agent while a delivery and a reply are handled.
MaxStatusSets == 1
\* Gmail message ids, and messagesAdded entries of one fetched history, when
\* the emails vary in every header the handler reads.
IntakeMsgs == 2
IntakeBatch == 1
\* The same, when the emails vary in what threading reads.
ThreadMsgs == 3
ThreadBatch == 2

Procs == 1..MaxDeliveries

\* ------------------------------------------------------- values and inputs
\* Optional values: None is undefined/null, Some(x) a present value.
None == <<>>
Some(x) == <<x>>

\* Addresses.  SupportAddr is gmailSupportEmail.email.
SupportAddr == "support@example.com"
StaffAddr == "staff@example.com"
CustomerAddr == "customer@example.com"
OtherAddr == "user2@example.com"
\* The mailbox's address as a correspondent may spell it.
MixedCaseSupportAddr == "Support@Example.com"
NoReplyAddr == "noreply@shop.example"

\* The Date header of an email, on the clock that new Date() reads.
Dates == 1..MaxDeliveries

\* The slug a conversation gets at its insert: unique, and not its id.
SlugOf(id) == 100 + id

\* new Date() inside delivery p: deliveries start at distinct times.
Now(p) == p

\* Texts the model may answer the auto-ignore prompt with.
AITexts ==
  { <<"y", "e", "s">>,
    <<" ", "Y", "e", "s", "\n">>,
    <<"n", "o">>,
    <<"y", "e", "s", " ", "b", "u", "t">> }

\* The undo window before a queued reply is sent.
EMAIL_UNDO_COUNTDOWN_SECONDS == 15

IGNORED_GMAIL_CATEGORIES ==
  {"CATEGORY_PROMOTIONS", "CATEGORY_UPDATES", "CATEGORY_FORUMS", "CATEGORY_SOCIAL"}

isNewThread(gmailMessageId, gmailThreadId) == gmailMessageId = gmailThreadId

\* matchesTransactionalEmailAddress: a pattern over the sender address.
matchesTransactionalEmailAddress(address) == address \in {NoReplyAddr}

\* getBasicProfileByEmail: the staff profile of an address, "none" if there is
\* none.  The owner of the mailbox is a staff user under the mailbox's address.
getBasicProfileByEmail(address) ==
  IF address = StaffAddr THEN "user_staff"
  ELSE IF address = SupportAddr THEN "user_owner"
  ELSE "none"

\* String.prototype.toLowerCase over the addresses of the model.
addressToLowerCase(address) ==
  IF address = MixedCaseSupportAddr THEN SupportAddr ELSE address

\* String.prototype.toLowerCase and trim, over the characters the answers use.
LowerChar(c) ==
  CASE c = "Y" -> "y"
    [] c = "E" -> "e"
    [] c = "S" -> "s"
    [] c = "N" -> "n"
    [] c = "O" -> "o"
    [] OTHER -> c

toLowerCase(s) == [i \in DOMAIN s |-> LowerChar(s[i])]

IsWhiteSpace(c) == c \in {" ", "\n", "\t"}

RECURSIVE trimStart(_)
trimStart(s) ==
  IF Len(s) > 0 /\ IsWhiteSpace(s[1]) THEN trimStart(Tail(s)) ELSE s

RECURSIVE trimEnd(_)
trimEnd(s) ==
  IF Len(s) > 0 /\ IsWhiteSpace(s[Len(s)]) THEN trimEnd(SubSeq(s, 1, Len(s) - 1)) ELSE s

trim(s) == trimEnd(trimStart(s))

\* env.GOOGLE_PUBSUB_CLAIM_EMAIL, and another principal.
GOOGLE_PUBSUB_CLAIM_EMAIL == "pubsub@example.com"
OtherPrincipal == "someone@example.com"

\* Identity tokens: whether verifyIdToken accepts the token, and its claim email.
ValidToken == [verified |-> TRUE, email |-> GOOGLE_PUBSUB_CLAIM_EMAIL]
Tokens ==
  { ValidToken,
    [verified |-> FALSE, email |-> "none"],
    [verified |-> TRUE, email |-> "none"],
    [verified |-> TRUE, email |-> OtherPrincipal] }

\* The gmailSupportEmails record of the payload's address, as the lookup finds it.
ValidSupportEmail(historyId) ==
  [found |-> TRUE, mailbox |-> TRUE, accessToken |-> TRUE, refreshToken |-> TRUE,
   historyId |-> historyId]

SupportEmails ==
  { ValidSupportEmail(0), ValidSupportEmail(1),
    [found |-> FALSE, mailbox |-> FALSE, accessToken |-> FALSE, refreshToken |-> FALSE, historyId |-> 0],
    [found |-> TRUE, mailbox |-> FALSE, accessToken |-> TRUE, refreshToken |-> TRUE, historyId |-> 1],
    [found |-> TRUE, mailbox |-> TRUE, accessToken |-> FALSE, refreshToken |-> TRUE, historyId |-> 1],
    [found |-> TRUE, mailbox |-> TRUE, accessToken |-> TRUE, refreshToken |-> FALSE, historyId |-> 1] }

\* data.historyId of delivery p: later than the stored cursor and than the
\* historyId of the deliveries before it.
PayloadHistoryId(p) == p + 1

\* The status of a users.history.list response.
Statuses == {200, 302, 404, 500}

\* mailbox.preferences.autoRespondEmailToChat
AutoRespondModes == {"null", "draft", "reply"}

\* The outcome of runAIQuery: a text, or a thrown error.
AIFailure == [ok |-> FALSE, text |-> <<>>]
AIOutcomes == [ok : {TRUE}, text : AITexts] \cup {AIFailure}

\* What the provider and the model may hand to the handler: the message ids
\* and batch length of a history, the labelIds of an entry, the From, Cc and
\* Date headers of an email, the classifier's outcomes.
\* What may become of one attachment: all goes well, or the insert of its
\* files row, its upload, or the generation of its preview rejects.
AttachmentFates == {"ok", "insert", "upload", "preview"}

AttachmentInputs ==
  [ msgs |-> 2, batch |-> 1, failures |-> MaxFailures,
    tokens |-> {ValidToken},
    supportEmails |-> {ValidSupportEmail(1)},
    statuses |-> {200},
    autoRespond |-> {"null"},
    otherRefs |-> {},
    labelIds |-> {{"INBOX"}},
    from |-> {CustomerAddr},
    cc |-> {<<StaffAddr>>},
    attachments |-> UNION {[1..n -> AttachmentFates] : n \in 0..MaxAttachments},
    history |-> "any",
    date |-> {1},
    ai |-> {[ok |-> TRUE, text |-> <<"n", "o">>]} ]

IntakeInputs ==
  [ msgs |-> IntakeMsgs, batch |-> IntakeBatch, failures |-> MaxFailures,
    tokens |-> {ValidToken},
    supportEmails |-> {ValidSupportEmail(1)},
    statuses |-> {200},
    autoRespond |-> AutoRespondModes,
    otherRefs |-> {[id |-> 0, threadId |-> 1]},
    labelIds |-> {{"INBOX"}, {"INBOX", "CATEGORY_PROMOTIONS"}, {"UNREAD", "CATEGORY_PERSONAL"}},
    from |-> {CustomerAddr, StaffAddr, SupportAddr, MixedCaseSupportAddr, NoReplyAddr},
    cc |-> {<<>>, <<SupportAddr, StaffAddr>>, <<MixedCaseSupportAddr, OtherAddr>>,
            <<OtherAddr, StaffAddr>>},
    attachments |-> {<<>>},
    history |-> "any",
    date |-> {1},
    ai |-> AIOutcomes ]

\* Two overlapping deliveries of plain customer emails.
OverlapInputs ==
  [ msgs |-> IntakeMsgs, batch |-> IntakeBatch, failures |-> 0,
    tokens |-> {ValidToken},
    supportEmails |-> {ValidSupportEmail(1)},
    statuses |-> {200},
    autoRespond |-> {"null"},
    otherRefs |-> {},
    labelIds |-> {{"INBOX"}},
    from |-> {CustomerAddr},
    cc |-> {<<StaffAddr>>},
    attachments |-> {<<>>},
    history |-> "any",
    date |-> {1},
    ai |-> {[ok |-> TRUE, text |-> <<"n", "o">>]} ]

\* Deliveries that vary in token, support-email record, cursors and provider
\* responses, of customer emails and of the mailbox's own.
WebhookInputs ==
  [ msgs |-> WebhookMsgs, batch |-> WebhookBatch, failures |-> MaxFailures,
    tokens |-> Tokens,
    supportEmails |-> SupportEmails,
    statuses |-> Statuses,
    autoRespond |-> {"null"},
    otherRefs |-> {[id |-> 1, threadId |-> 0]},
    labelIds |-> {{"INBOX"}},
    from |-> {CustomerAddr, SupportAddr},
    cc |-> {<<StaffAddr>>},
    attachments |-> {<<>>},
    history |-> "any",
    date |-> {1},
    ai |-> {[ok |-> TRUE, text |-> <<"n", "o">>]} ]

\* Deliveries of customer emails whose histories are what the mailbox holds
\* after the cursor of the fetch.
HistoryInputs ==
  [ msgs |-> 2, batch |-> 2, failures |-> MaxFailures,
    tokens |-> {ValidToken},
    supportEmails |-> {ValidSupportEmail(1)},
    statuses |-> {200, 404},
    autoRespond |-> {"null"},
    otherRefs |-> {},
    labelIds |-> {{"INBOX"}},
    from |-> {CustomerAddr},
    cc |-> {<<>>, <<StaffAddr>>},
    attachments |-> {<<>>},
    history |-> "mailbox",
    date |-> {1},
    ai |-> {[ok |-> TRUE, text |-> <<"n", "o">>]} ]

\* A delivery that meets a reply and an agent's status change: customer
\* emails, with a promotions label or without.
StatusInputs ==
  [ msgs |-> 4, batch |-> 1, failures |-> MaxFailures,
    tokens |-> {ValidToken},
    supportEmails |-> {ValidSupportEmail(1)},
    statuses |-> {200},
    autoRespond |-> {"null"},
    otherRefs |-> {},
    labelIds |-> {{"INBOX"}, {"INBOX", "CATEGORY_PROMOTIONS"}},
    from |-> {CustomerAddr},
    cc |-> {<<StaffAddr>>},
    attachments |-> {<<>>},
    history |-> "any",
    date |-> {2},
    ai |-> {[ok |-> TRUE, text |-> <<"n", "o">>]} ]

ThreadInputs ==
  [ msgs |-> ThreadMsgs, batch |-> ThreadBatch, failures |-> 0,
    tokens |-> {ValidToken},
    supportEmails |-> {ValidSupportEmail(1)},
    statuses |-> {200},
    autoRespond |-> {"null"},
    otherRefs |-> {},
    labelIds |-> {{"INBOX"}},
    from |-> {CustomerAddr},
    cc |-> {<<StaffAddr>>},
    attachments |-> {<<>>},
    history |-> "any",
    date |-> Dates,
    ai |-> {[ok |-> TRUE, text |-> <<"n", "o">>]} ]

\* Variant of the classifier that ignores the message when the call fails.
isThankYouOrAutoResponseFailClosed(outcome) ==
  IF outcome.ok THEN trim(toLowerCase(outcome.text)) = <<"y", "e", "s">> ELSE TRUE

\* The auto-ignore classifier: the model's answer, false when the call throws.
isThankYouOrAutoResponse(outcome) ==
  IF outcome.ok THEN trim(toLowerCase(outcome.text)) = <<"y", "e", "s">> ELSE FALSE

\* ------------------------------------------------------------------ state
VARIABLES
  threadOf,       \* Gmail: the thread id of each message id
  autoRespond,    \* mailbox.preferences.autoRespondEmailToChat
  supportEmail,   \* table gmail_support_emails: the record of the payload's address
  conversations,  \* table conversations, row i has id i
  messages,       \* table conversation_messages, row i has id i
  conversationEvents, \* table conversation_events, append-only
  realtime,       \* what was published to the realtime channels, in order
  jobs,           \* the pgmq queue 'jobs'
  h,              \* per delivery: the handler's position and locals
  failures,       \* rejected promises (database, provider, queue) still to come
  ingested,       \* history: for message row i, how and by which delivery it was ingested
  lastUpdate,     \* history: the arguments of the last updateConversation call
  files           \* table files: the rows of attachments, and what became of each

vars ==
  <<threadOf, autoRespond, supportEmail, conversations, messages, conversationEvents,
    realtime, jobs, h, failures, ingested, lastUpdate, files>>

\* The handler's locals before and between messages.
NoConversation == [id |-> 0, status |-> "none", assignedToAI |-> FALSE]

NoEmail ==
  [ gmailMessageId |-> 0, gmailThreadId |-> 0, labelIds |-> {}, from |-> "none",
    cc |-> <<>>, attachments |-> <<>>, staffUser |-> "none", shouldIgnore |-> FALSE,
    ai |-> None, isAutomatedResponseOrThankYou |-> None,
    conversation |-> NoConversation, createdConversation |-> FALSE, newEmail |-> 0 ]

IdleHandler ==
  [ pc |-> "idle", token |-> None, historyId |-> 0, cached |-> 0, fetches |-> <<>>, returned |-> "none",
    messagesAdded |-> <<>>, i |-> 1, results |-> <<>>, cur |-> NoEmail, direct |-> {} ]

\* The positions at which an invocation has ended.
Finished == {"done", "raised", "rejected", "returned", "crashed"}

\* Gmail gives a thread the id of its first message.
ThreadStructures(n) ==
  { t \in [1..n -> 1..n] : \A m \in 1..n : t[m] <= m /\ t[t[m]] = t[m] }

\* Before any updateConversation call.
NoUpdate ==
  [ found |-> FALSE, id |-> 0, set |-> [k \in {} |-> 0], byUserId |-> "none",
    reason |-> "none", skipRealtimeEvents |-> FALSE, now |-> 0 ]

InitWith(I) ==
  /\ threadOf \in ThreadStructures(I.msgs)
  /\ autoRespond \in I.autoRespond
  /\ supportEmail \in I.supportEmails
  /\ conversations = <<>>
  /\ messages = <<>>
  /\ conversationEvents = <<>>
  /\ realtime = <<>>
  /\ jobs = <<>>
  /\ h = [p \in Procs |-> IdleHandler]
  /\ failures = I.failures
  /\ ingested = <<>>
  /\ lastUpdate = NoUpdate
  /\ files = {}

\* ---------------------------------------------------------------- helpers
\* History entries the provider may list: known messages, or one lacking its id.
MessageRefs(I) ==
  {[id |-> m, threadId |-> threadOf[m]] : m \in DOMAIN threadOf} \cup I.otherRefs

Batches(I) == UNION {[1..k -> MessageRefs(I)] : k \in 0..I.batch}

\* The history id at which Gmail added message m to the mailbox.
AddedAt(m) == m + 1

\* users.history.list: the messages added after startHistoryId, in order, up
\* to where the mailbox's history stands.
HistoryAfter(startHistoryId, upTo) ==
  SelectSeq([m \in DOMAIN threadOf |-> [id |-> m, threadId |-> threadOf[m]]],
            LAMBDA ref : startHistoryId < AddedAt(ref.id) /\ AddedAt(ref.id) <= upTo)

\* What a history fetch of delivery p may return: any batch, or what the
\* mailbox holds after the cursor the fetch is made with; the mailbox's
\* history stands at the delivery's historyId or later.
FetchedBatches(I, p, startHistoryId) ==
  IF I.history = "any" THEN Batches(I)
  ELSE { HistoryAfter(startHistoryId, upTo) :
           upTo \in PayloadHistoryId(p)..AddedAt(Len(threadOf)) }

CanFail == failures > 0

\* Variant of the loop's continue that records nothing for a reference
\* without ids.
NextMessageUnlessMissing(hp, result) ==
  [hp EXCEPT !.results = IF result.message = "Skipped - missing message ID or thread ID"
                         THEN @ ELSE Append(@, result),
             !.i = @ + 1,
             !.cur = NoEmail,
             !.pc = IF hp.i + 1 > Len(hp.messagesAdded) THEN "cursor" ELSE "loop"]

\* The loop's next iteration, or the cursor write after the last one.
NextMessage(hp, result) ==
  [hp EXCEPT !.results = Append(@, result),
             !.i = @ + 1,
             !.cur = NoEmail,
             !.pc = IF hp.i + 1 > Len(hp.messagesAdded) THEN "cursor" ELSE "loop"]

ErrorResult(cur) ==
  [ message |-> "Error processing message", gmailMessageId |-> cur.gmailMessageId,
    gmailThreadId |-> cur.gmailThreadId, messageId |-> 0, conversationSlug |-> 0,
    responded |-> None, isAutomatedResponseOrThankYou |-> None ]

SkippedResult(text, id, threadId) ==
  [ message |-> text, gmailMessageId |-> id, gmailThreadId |-> threadId,
    messageId |-> 0, conversationSlug |-> 0,
    responded |-> None, isAutomatedResponseOrThankYou |-> None ]

\* The catch block of the loop body: record the error, go on with the next message.
Caught(p) ==
  /\ CanFail
  /\ failures' = failures - 1
  /\ h' = [h EXCEPT ![p] = NextMessage(@, ErrorResult(h[p].cur))]

\* A throw inside the loop body's try that no injected failure causes.
Thrown(p) ==
  /\ h' = [h EXCEPT ![p] = NextMessage(@, ErrorResult(h[p].cur))]
  /\ UNCHANGED failures

\* A throw outside the try: the handler rejects, nothing is returned.
Raised(p) ==
  /\ CanFail
  /\ failures' = failures - 1
  /\ h' = [h EXCEPT ![p] = [@ EXCEPT !.pc = "raised", !.cur = NoEmail]]

Goto(p, label, cur) == h' = [h EXCEPT ![p] = [@ EXCEPT !.pc = label, !.cur = cur]]

\* ------------------------------------------------------------ the queue
\* The handlers the catalog lists for each event.
EventJobs(event) ==
  CASE event = "files/preview.generate" -> <<"generateFilePreview">>
    [] event = "conversations/embedding.create" -> <<"embeddingConversation">>
    [] event = "conversations/message.created" ->
         << "indexConversationMessage", "generateConversationSummaryEmbeddings",
            "mergeSimilarConversations", "publishNewMessageEvent", "notifyVipMessage",
            "categorizeConversationToIssueGroup" >>
    [] event = "conversations/email.enqueued" -> <<"postEmailToGmail">>
    [] event = "conversations/auto-response.create" -> <<"handleAutoResponse">>
    [] event = "conversations/human-support-requested" ->
         <<"autoAssignConversation", "publishRequestHumanSupport">>
    [] event = "conversations/send-follower-notification" -> <<"sendFollowerNotification">>

\* superjson.serialize: the payload under the key json.
serialize(data) == [json |-> data]

\* Variant of the call that sends one send per handler, of which only the
\* first gets through.
triggerEventFirstHandler(event, data, sleepSeconds) ==
  << [event |-> event, job |-> EventJobs(event)[1], data |-> serialize(data),
       sleepSeconds |-> sleepSeconds] >>

\* The job records one triggerEvent call sends in its single send_batch.
triggerEvent(event, data, sleepSeconds) ==
  [k \in DOMAIN EventJobs(event) |->
     [event |-> event, job |-> EventJobs(event)[k], data |-> serialize(data),
       sleepSeconds |-> sleepSeconds]]

\* -------------------------------------------------------- conversations
\* Variant of the inserted row that leaves closedAt empty.
NewConversationRowNoClosedAt(cur, p) ==
  [ status |-> IF cur.shouldIgnore THEN "closed" ELSE "open",
    closedAt |-> 0,
    assignedToAI |-> autoRespond # "null",
    assignedToId |-> "none",
    mergedIntoId |-> 0,
    lastMessageAt |-> 0,
    lastUserEmailCreatedAt |-> 0,
    lastReadAt |-> 0 ]

\* The row createNewConversation inserts.
NewConversationRow(cur, p) ==
  [ status |-> IF cur.shouldIgnore THEN "closed" ELSE "open",
    closedAt |-> IF cur.shouldIgnore THEN Now(p) ELSE 0,
    assignedToAI |-> autoRespond # "null",
    assignedToId |-> "none",
    mergedIntoId |-> 0,
    lastMessageAt |-> 0,
    lastUserEmailCreatedAt |-> 0,
    lastReadAt |-> 0 ]

\* The columns the handler keeps of a conversation row.
Returning(id, row) == [id |-> id, status |-> row.status, assignedToAI |-> row.assignedToAI]

\* Variant of the write that clears closedAt when the status leaves closed.
updateConversationClearsClosedAt(convs, id, set, now) ==
  IF id \notin DOMAIN convs THEN convs
  ELSE LET row == convs[id]
           written == [k \in DOMAIN row |-> IF k \in DOMAIN set THEN set[k] ELSE row[k]]
           closing == "status" \in DOMAIN set /\ set["status"] = "closed"
                      /\ "closedAt" \notin DOMAIN set
           leaving == "status" \in DOMAIN set /\ set["status"] # "closed"
       IN [convs EXCEPT ![id] = IF closing THEN [written EXCEPT !.closedAt = now]
                                ELSE IF leaving THEN [written EXCEPT !.closedAt = 0]
                                ELSE written]

\* updateConversation's write: the given columns replace the row's; closing
\* stamps closedAt unless the caller sets it.  An unknown id changes nothing.
updateConversation(convs, id, set, now) ==
  IF id \notin DOMAIN convs THEN convs
  ELSE LET row == convs[id]
           written == [k \in DOMAIN row |-> IF k \in DOMAIN set THEN set[k] ELSE row[k]]
           closing == "status" \in DOMAIN set /\ set["status"] = "closed"
                      /\ "closedAt" \notin DOMAIN set
       IN [convs EXCEPT ![id] = IF closing THEN [written EXCEPT !.closedAt = now] ELSE written]

\* Variant of the audit row that is written only when the status is set.
UpdateLogStatusOnly(convs, id, set, byUserId, reason) ==
  IF id \notin DOMAIN convs \/ "status" \notin DOMAIN set THEN <<>>
  ELSE << [ conversationId |-> id, type |-> "update",
            changes |-> [k \in DOMAIN set \cap {"status", "assignedToId", "assignedToAI"} |->
                           convs[id][k]],
            byUserId |-> byUserId, reason |-> reason ] >>

\* updateConversation's audit row: the previous values of the logged columns
\* the update names, with the reason given.
UpdateLog(convs, id, set, byUserId, reason) ==
  IF id \notin DOMAIN convs THEN <<>>
  ELSE << [ conversationId |-> id, type |-> "update",
            changes |-> [k \in DOMAIN set \cap {"status", "assignedToId", "assignedToAI"} |->
                           convs[id][k]],
            byUserId |-> byUserId, reason |-> reason ] >>

\* The realtime channels.
conversationChannelId(slug) == <<"conversation", slug>>
conversationsListChannelId == <<"conversations">>

\* Variant of the publishes that announces a status change on every update
\* that sets the status.
UpdatePublishesOnEveryStatus(convs, id, set, skipRealtimeEvents, now) ==
  IF id \notin DOMAIN convs \/ skipRealtimeEvents THEN <<>>
  ELSE LET updated == updateConversation(convs, id, set, now)[id] IN
         << [ channel |-> conversationChannelId(SlugOf(id)), event |-> "conversation.updated",
              data |-> [id |-> id, slug |-> SlugOf(id), status |-> updated.status,
                        assignedToId |-> updated.assignedToId,
                        assignedToAI |-> updated.assignedToAI] ] >>
         \o (IF "status" \in DOMAIN set
             THEN << [ channel |-> conversationsListChannelId, event |-> "conversation.statusChanged",
                       data |-> [id |-> id, status |-> updated.status,
                                 assignedToAI |-> updated.assignedToAI,
                                 assignedToId |-> updated.assignedToId,
                                 previousValues |-> [status |-> convs[id].status,
                                                     assignedToId |-> convs[id].assignedToId,
                                                     assignedToAI |-> convs[id].assignedToAI]] ] >>
             ELSE <<>>)

\* updateConversation's realtime publishes: conversation.updated on the
\* conversation's channel and, when the status changed, conversation.statusChanged
\* on the list channel; none when skipRealtimeEvents is set.
UpdatePublishes(convs, id, set, skipRealtimeEvents, now) ==
  IF id \notin DOMAIN convs \/ skipRealtimeEvents THEN <<>>
  ELSE LET updated == updateConversation(convs, id, set, now)[id] IN
         << [ channel |-> conversationChannelId(SlugOf(id)), event |-> "conversation.updated",
              data |-> [id |-> id, slug |-> SlugOf(id), status |-> updated.status,
                        assignedToId |-> updated.assignedToId,
                        assignedToAI |-> updated.assignedToAI] ] >>
         \o (IF updated.status # convs[id].status
             THEN << [ channel |-> conversationsListChannelId, event |-> "conversation.statusChanged",
                       data |-> [id |-> id, status |-> updated.status,
                                 assignedToAI |-> updated.assignedToAI,
                                 assignedToId |-> updated.assignedToId,
                                 previousValues |-> [status |-> convs[id].status,
                                                     assignedToId |-> convs[id].assignedToId,
                                                     assignedToAI |-> convs[id].assignedToAI]] ] >>
             ELSE <<>>)

\* Variant of the embedding gate that fires on every update that sets closed.
UpdateJobsOnEveryClose(convs, id, set) ==
  IF id \in DOMAIN convs /\ "status" \in DOMAIN set /\ set["status"] = "closed"
  THEN triggerEvent("conversations/embedding.create", [conversationSlug |-> SlugOf(id)], 0)
  ELSE <<>>

\* updateConversation's domain event: conversations/embedding.create when the
\* status becomes closed and was not closed before.
UpdateJobs(convs, id, set) ==
  IF /\ id \in DOMAIN convs
     /\ "status" \in DOMAIN set /\ set["status"] = "closed"
     /\ convs[id].status # "closed"
  THEN triggerEvent("conversations/embedding.create", [conversationSlug |-> SlugOf(id)], 0)
  ELSE <<>>

\* One updateConversation call but for its domain event: the row, the audit
\* row, the publishes.
UpdateRows(id, set, byUserId, reason, skipRealtimeEvents, now) ==
  /\ conversations' = updateConversation(conversations, id, set, now)
  /\ conversationEvents' = conversationEvents \o UpdateLog(conversations, id, set, byUserId, reason)
  /\ realtime' = realtime \o UpdatePublishes(conversations, id, set, skipRealtimeEvents, now)
  /\ lastUpdate' = [ found |-> id \in DOMAIN conversations, id |-> id, set |-> set,
                     byUserId |-> byUserId, reason |-> reason,
                     skipRealtimeEvents |-> skipRealtimeEvents, now |-> now ]

\* One updateConversation call: the row, the audit row, the publishes, the event.
Update(id, set, byUserId, reason, skipRealtimeEvents, now) ==
  /\ UpdateRows(id, set, byUserId, reason, skipRealtimeEvents, now)
  /\ jobs' = jobs \o UpdateJobs(conversations, id, set)

\* The shared tables an update writes, and the history of the call.
updateVars == <<conversations, conversationEvents, realtime, jobs, lastUpdate>>

\* Variant of the table without the uniqueness of gmailMessageId.
NoUniqueGmailMessageId(rows, gmailMessageId) == TRUE

\* The storage-level uniqueness of conversation_messages.gmailMessageId.
GmailMessageIdIsFree(rows, gmailMessageId) ==
  \A k \in DOMAIN rows : rows[k].gmailMessageId # gmailMessageId

\* Variant of the lookup that orders by createdAt ascending.
PreviousEmailsOldestFirst(rows, gmailThreadId) ==
  LET same == {k \in DOMAIN rows : rows[k].gmailThreadId = gmailThreadId}
  IN {k \in same : \A j \in same : rows[k].createdAt <= rows[j].createdAt}

\* findFirst by gmailThreadId, newest createdAt first: the rows it may return.
PreviousEmails(rows, gmailThreadId) ==
  LET same == {k \in DOMAIN rows : rows[k].gmailThreadId = gmailThreadId}
  IN {k \in same : \A j \in same : rows[j].createdAt <= rows[k].createdAt}

\* ----------------------------------------------------------- the handler
\* Variant of the authorization that accepts any verified token.
authorizeAnyPrincipal(token) == token.verified

\* authorizeGmailRequest: the token verifies and its claim email is the expected one.
authorizeGmailRequest(token) ==
  token.verified /\ token.email # "none" /\ token.email = GOOGLE_PUBSUB_CLAIM_EMAIL

\* A delivery arrives and is authorized, or rejected with a NonRetriableError.
Start(p, I) ==
  /\ h[p].pc = "idle"
  /\ \E token \in I.tokens :
       h' = [h EXCEPT ![p] =
               IF authorizeGmailRequest(token)
               THEN [@ EXCEPT !.pc = "mailbox", !.token = Some(token),
                              !.historyId = PayloadHistoryId(p)]
               ELSE [@ EXCEPT !.pc = "rejected", !.token = Some(token),
                              !.returned = "NonRetriableError: Invalid token"]]
  /\ UNCHANGED <<threadOf, autoRespond, supportEmail, conversations, messages, jobs, failures, ingested, conversationEvents, realtime, lastUpdate, files>>

\* Variant of the record check that does not ask for the refresh token.
UsableWithoutRefreshToken(record) ==
  record.found /\ record.mailbox /\ record.accessToken

\* The record has a mailbox and both tokens.
UsableSupportEmail(record) ==
  record.found /\ record.mailbox /\ record.accessToken /\ record.refreshToken

\* The lookup of the support-email record of the payload's address.
LookupMailbox(p) ==
  /\ h[p].pc = "mailbox"
  /\ \/ Raised(p)
     \/ /\ h' = [h EXCEPT ![p] =
                  IF UsableSupportEmail(supportEmail)
                  THEN [@ EXCEPT !.pc = "history", !.cached = supportEmail.historyId]
                  ELSE [@ EXCEPT !.pc = "returned",
                                 !.returned = "Valid gmail support email record not found"]]
        /\ UNCHANGED failures
  /\ UNCHANGED <<threadOf, autoRespond, supportEmail, conversations, messages, jobs, ingested, conversationEvents, realtime, lastUpdate, files>>

\* Variant of the response check that lets redirects pass.
IsBelow400(status) == status < 400

\* assertSuccessResponseOrThrow: does the response pass?
IsSuccess(status) == ~(status < 200 \/ status >= 300)

\* The history fetch with the stored cursor, else the payload's; after a 404,
\* the fetch with the payload's cursor.
FetchHistory(p, I) ==
  /\ h[p].pc \in {"history", "fallback"}
  /\ LET historyId == IF h[p].pc = "history" /\ h[p].cached # 0 THEN h[p].cached
                       ELSE h[p].historyId
     IN \E status \in I.statuses :
          LET fetched == Append(h[p].fetches, [historyId |-> historyId, status |-> status]) IN
            IF h[p].pc = "history" /\ status = 404
            THEN h' = [h EXCEPT ![p] = [@ EXCEPT !.pc = "fallback", !.fetches = fetched]]
            ELSE IF ~IsSuccess(status)
            THEN h' = [h EXCEPT ![p] = [@ EXCEPT !.pc = "raised", !.fetches = fetched]]
            ELSE \E b \in FetchedBatches(I, p, historyId) :
                   h' = [h EXCEPT ![p] = [@ EXCEPT !.pc = IF Len(b) = 0 THEN "cursor" ELSE "loop",
                                                   !.fetches = fetched,
                                                   !.messagesAdded = b]]
  /\ UNCHANGED <<threadOf, autoRespond, supportEmail, conversations, messages, jobs, failures, ingested, conversationEvents, realtime, lastUpdate, files>>

\* Variant of the dedup lookup that finds nothing.
ExistingEmailNever(rows, gmailMessageId) == FALSE

\* Variant of the dedup lookup that matches on the thread id column.
ExistingEmailByThread(rows, gmailMessageId) ==
  \E k \in DOMAIN rows : rows[k].gmailThreadId = gmailMessageId

\* The dedup lookup: is a message with this gmailMessageId persisted?
ExistingEmail(rows, gmailMessageId) ==
  \E k \in DOMAIN rows : rows[k].gmailMessageId = gmailMessageId

\* The head of the loop body: the id check and the dedup lookup.  The labels
\* of the history entry and the sender of the email the provider holds are
\* drawn here.
DedupLookup(p, I) ==
  /\ h[p].pc = "loop"
  /\ LET ref == h[p].messagesAdded[h[p].i] IN
       \/ /\ ref.id = 0 \/ ref.threadId = 0
          /\ h' = [h EXCEPT ![p] = NextMessage(@,
                     SkippedResult("Skipped - missing message ID or thread ID", ref.id, ref.threadId))]
          /\ UNCHANGED failures
       \/ /\ ref.id # 0 /\ ref.threadId # 0
          /\ ExistingEmail(messages, ref.id)
          /\ h' = [h EXCEPT ![p] = NextMessage(@,
                     SkippedResult("Skipped - message already exists", ref.id, ref.threadId))]
          /\ UNCHANGED failures
       \/ /\ ref.id # 0 /\ ref.threadId # 0
          /\ ~ExistingEmail(messages, ref.id)
          /\ \E labelIds \in I.labelIds : \E from \in I.from :
               Goto(p, "fetch", [NoEmail EXCEPT !.gmailMessageId = ref.id,
                                                !.gmailThreadId = ref.threadId,
                                                !.labelIds = labelIds,
                                                !.from = from])
          /\ UNCHANGED failures
       \/ /\ ref.id # 0 /\ ref.threadId # 0
          /\ Raised(p)
  /\ UNCHANGED <<threadOf, autoRespond, supportEmail, conversations, messages, jobs, ingested, conversationEvents, realtime, lastUpdate, files>>

\* Variant of the cheap rules that ignores staff senders on first messages too.
CheapIgnoreAnyStaff(staffUser, gmailMessageId, gmailThreadId, labelIds, from) ==
  \/ staffUser # "none"
  \/ \E id \in labelIds : id \in IGNORED_GMAIL_CATEGORIES
  \/ matchesTransactionalEmailAddress(from)

\* The cheap ignore rules.
CheapIgnore(staffUser, gmailMessageId, gmailThreadId, labelIds, from) ==
  \/ staffUser # "none" /\ ~isNewThread(gmailMessageId, gmailThreadId)
  \/ \E id \in labelIds : id \in IGNORED_GMAIL_CATEGORIES
  \/ matchesTransactionalEmailAddress(from)

\* Variant of the own-address check that never matches.
emailNeverFromMailbox(from) == FALSE

\* Was the email sent from the mailbox's own address?
emailSentFromMailbox(from) == from = SupportAddr

\* getMessageById, the parse, the own-address check and the cheap rules.
FetchMessage(p, I) ==
  /\ h[p].pc = "fetch"
  /\ \/ Caught(p)
     \/ /\ LET cur == h[p].cur
                 from == cur.from
                 staffUser == getBasicProfileByEmail(from)
                 ignore == CheapIgnore(staffUser, cur.gmailMessageId, cur.gmailThreadId,
                                       cur.labelIds, from)
             IN IF emailSentFromMailbox(from)
                THEN h' = [h EXCEPT ![p] = NextMessage(@,
                            SkippedResult("Skipped - message sent from mailbox",
                                          cur.gmailMessageId, cur.gmailThreadId))]
                ELSE Goto(p, IF ignore THEN "resolve" ELSE "classify",
                          [cur EXCEPT !.staffUser = staffUser, !.shouldIgnore = ignore])
        /\ UNCHANGED failures
  /\ UNCHANGED <<threadOf, autoRespond, supportEmail, conversations, messages, jobs, ingested, conversationEvents, realtime, lastUpdate, files>>

\* The classifier call, made only for a message no cheap rule ignores.
Classify(p, I) ==
  /\ h[p].pc = "classify"
  /\ \E outcome \in I.ai :
       Goto(p, "resolve",
            [h[p].cur EXCEPT !.ai = Some(outcome),
                             !.isAutomatedResponseOrThankYou = Some(isThankYouOrAutoResponse(outcome)),
                             !.shouldIgnore = isThankYouOrAutoResponse(outcome)])
  /\ UNCHANGED <<threadOf, autoRespond, supportEmail, conversations, messages, jobs, failures, ingested, conversationEvents, realtime, lastUpdate, files>>

\* The locals still read once the conversation is resolved.
Resolved(cur, conversation, created) ==
  [cur EXCEPT !.labelIds = {},
              !.conversation = conversation, !.createdConversation = created]

\* createNewConversation: insert the row, keep its returned columns.
InsertConversation(p) ==
  LET row == NewConversationRow(h[p].cur, p) IN
    /\ conversations' = Append(conversations, row)
    /\ Goto(p, "insertMsg", Resolved(h[p].cur, Returning(Len(conversations) + 1, row), TRUE))

\* Variant that looks the thread up for every message.
LooksUpThreadAlways(gmailMessageId, gmailThreadId) == TRUE

\* Is the conversation of a thread looked up, or a new one created outright?
LooksUpThread(gmailMessageId, gmailThreadId) == ~isNewThread(gmailMessageId, gmailThreadId)

ResolveConversation(p) ==
  /\ h[p].pc = "resolve"
  /\ \/ /\ Caught(p)
        /\ UNCHANGED conversations
     \/ /\ ~LooksUpThread(h[p].cur.gmailMessageId, h[p].cur.gmailThreadId)
        /\ InsertConversation(p)
        /\ UNCHANGED failures
     \/ /\ LooksUpThread(h[p].cur.gmailMessageId, h[p].cur.gmailThreadId)
        /\ PreviousEmails(messages, h[p].cur.gmailThreadId) = {}
        /\ Goto(p, "createConv", h[p].cur)
        /\ UNCHANGED <<conversations, failures>>
     \/ /\ LooksUpThread(h[p].cur.gmailMessageId, h[p].cur.gmailThreadId)
        /\ \E k \in PreviousEmails(messages, h[p].cur.gmailThreadId) :
             Goto(p, "insertMsg",
                  Resolved(h[p].cur, Returning(messages[k].conversationId,
                                               conversations[messages[k].conversationId]), FALSE))
        /\ UNCHANGED <<conversations, failures>>
  /\ UNCHANGED <<threadOf, autoRespond, supportEmail, messages, jobs, ingested, conversationEvents, realtime, lastUpdate, files>>

\* The fallback creation after a lookup that found no previous email.
CreateNewConversation(p) ==
  /\ h[p].pc = "createConv"
  /\ \/ /\ Caught(p)
        /\ UNCHANGED conversations
     \/ /\ InsertConversation(p)
        /\ UNCHANGED failures
  /\ UNCHANGED <<threadOf, autoRespond, supportEmail, messages, jobs, ingested, conversationEvents, realtime, lastUpdate, files>>

\* Variant of the row in which a staff member's email is queued for sending.
NewMessageRowQueueing(cur, date) ==
  [ gmailMessageId |-> cur.gmailMessageId,
    gmailThreadId |-> cur.gmailThreadId,
    conversationId |-> cur.conversation.id,
    emailFrom |-> cur.from,
    role |-> IF cur.staffUser # "none" THEN "staff" ELSE "user",
    status |-> IF cur.staffUser # "none" THEN "queueing" ELSE "null",
    userId |-> cur.staffUser,
    createdAt |-> date ]

\* The row createMessageAndProcessAttachments hands to createConversationMessage.
NewMessageRow(cur, date) ==
  [ gmailMessageId |-> cur.gmailMessageId,
    gmailThreadId |-> cur.gmailThreadId,
    conversationId |-> cur.conversation.id,
    emailFrom |-> cur.from,
    role |-> IF cur.staffUser # "none" THEN "staff" ELSE "user",
    status |-> IF cur.staffUser # "none" THEN "sent" ELSE "null",
    userId |-> cur.staffUser,
    createdAt |-> date ]

\* How the ignore decision of a message used the classifier.
Classifier(ai) == IF ai = None THEN "skipped" ELSE IF ai[1].ok THEN "answered" ELSE "failed"

\* createConversationMessage, the insert.
InsertMessage(p, I) ==
  /\ h[p].pc = "insertMsg"
  /\ \/ /\ Caught(p)
        /\ UNCHANGED <<messages, ingested>>
     \/ /\ ~GmailMessageIdIsFree(messages, h[p].cur.gmailMessageId)
        /\ Thrown(p)
        /\ UNCHANGED <<messages, ingested>>
     \/ /\ GmailMessageIdIsFree(messages, h[p].cur.gmailMessageId)
        /\ \E date \in I.date : messages' = Append(messages, NewMessageRow(h[p].cur, date))
        /\ ingested' = Append(ingested, [shouldIgnore |-> h[p].cur.shouldIgnore,
                                         classifier |-> Classifier(h[p].cur.ai), by |-> p])
        /\ Goto(p, "touch", [h[p].cur EXCEPT !.newEmail = Len(messages) + 1])
        /\ UNCHANGED failures
  /\ UNCHANGED <<threadOf, autoRespond, supportEmail, conversations, jobs, conversationEvents, realtime, lastUpdate, files>>

\* The columns createConversationMessage stamps on the conversation.
LastMessageStamps(role, now) ==
  IF role = "user"
  THEN [lastMessageAt |-> now, lastUserEmailCreatedAt |-> now, lastReadAt |-> now]
  ELSE [lastMessageAt |-> now]

\* createConversationMessage, the conversation's last-message stamps.
TouchConversation(p) ==
  /\ h[p].pc = "touch"
  /\ \/ /\ Caught(p)
        /\ UNCHANGED updateVars
     \/ /\ LET row == messages[h[p].cur.newEmail]
           IN Update(row.conversationId, LastMessageStamps(row.role, Now(p)),
                     "none", "none", TRUE, Now(p))
        /\ Goto(p, "events", h[p].cur)
        /\ UNCHANGED failures
  /\ UNCHANGED <<threadOf, autoRespond, supportEmail, messages, ingested, files>>

\* Variant of eventsToSend that notifies followers of drafts too.
EventsToSendFollowersOfDrafts(id, row) ==
  (IF row.status # "draft"
   THEN <<[name |-> "conversations/message.created",
           data |-> [messageId |-> id, conversationId |-> row.conversationId],
           sleepSeconds |-> 0]>>
   ELSE <<>>)
  \o (IF row.userId # "none" /\ row.role \in {"user", "staff"}
      THEN <<[name |-> "conversations/send-follower-notification",
              data |-> [conversationId |-> row.conversationId, eventType |-> "new_message",
                        triggeredByUserId |-> row.userId],
              sleepSeconds |-> 0]>>
      ELSE <<>>)
  \o (IF row.status = "queueing"
      THEN <<[name |-> "conversations/email.enqueued", data |-> [messageId |-> id],
              sleepSeconds |-> EMAIL_UNDO_COUNTDOWN_SECONDS]>>
      ELSE <<>>)

\* createConversationMessage's eventsToSend, in order.
EventsToSend(id, row) ==
  (IF row.status # "draft"
   THEN <<[name |-> "conversations/message.created",
           data |-> [messageId |-> id, conversationId |-> row.conversationId],
           sleepSeconds |-> 0]>>
        \o (IF row.userId # "none" /\ row.role \in {"user", "staff"}
            THEN <<[name |-> "conversations/send-follower-notification",
                    data |-> [conversationId |-> row.conversationId, eventType |-> "new_message",
                              triggeredByUserId |-> row.userId],
                    sleepSeconds |-> 0]>>
            ELSE <<>>)
   ELSE <<>>)
  \o (IF row.status = "queueing"
      THEN <<[name |-> "conversations/email.enqueued", data |-> [messageId |-> id],
              sleepSeconds |-> EMAIL_UNDO_COUNTDOWN_SECONDS]>>
      ELSE <<>>)

\* The jobs of the calls in `sent` (positions of eventsToSend), in order.
SendAll(events, sent) ==
  LET Call(k) == IF k \in DOMAIN events /\ k \in sent
                 THEN triggerEvent(events[k].name, events[k].data, events[k].sleepSeconds)
                 ELSE <<>>
  IN Call(1) \o Call(2) \o Call(3)

\* createConversationMessage, Promise.all over the triggerEvent calls: each
\* call is enqueued whole or rejects, and one rejection rejects the whole.
\* The Cc header the caller reads next is drawn on return, and so are the
\* attachments of the parsed email, each with what its processing will meet.
SendMessageEvents(p, I) ==
  /\ h[p].pc = "events"
  /\ LET events == EventsToSend(h[p].cur.newEmail, messages[h[p].cur.newEmail]) IN
       \/ /\ jobs' = jobs \o SendAll(events, DOMAIN events)
          /\ \E cc \in I.cc : \E attachments \in I.attachments :
               Goto(p, "cc", [h[p].cur EXCEPT !.cc = cc, !.attachments = attachments])
          /\ UNCHANGED failures
       \/ /\ \E sent \in SUBSET (DOMAIN events) :
               /\ sent # DOMAIN events
               /\ jobs' = jobs \o SendAll(events, sent)
          /\ Caught(p)
  /\ UNCHANGED <<threadOf, autoRespond, supportEmail, conversations, messages, ingested, conversationEvents, realtime, lastUpdate, files>>

\* Variant of the filter that keeps the mailbox's own address.
CcAddressesWithOwn(cc) == cc

\* extractAddresses(emailCc) without the mailbox's own address.
CcAddresses(cc) ==
  SelectSeq(cc, LAMBDA address : addressToLowerCase(address) # addressToLowerCase(SupportAddr))

\* assignBasedOnCc's loop: the profile of the first address that has one.
RECURSIVE FirstStaff(_)
FirstStaff(addresses) ==
  IF addresses = <<>> THEN "none"
  ELSE IF getBasicProfileByEmail(Head(addresses)) # "none"
       THEN getBasicProfileByEmail(Head(addresses))
       ELSE FirstStaff(Tail(addresses))

\* createMessageAndProcessAttachments, the read of the conversation's assignee.
ReadAssignee(p) ==
  /\ h[p].pc = "cc"
  /\ \/ /\ Caught(p)
     \/ /\ LET cur == h[p].cur
                 cc == cur.cc
                 assigns == /\ cc # <<>> /\ cur.staffUser = "none"
                            /\ conversations[cur.conversation.id].assignedToId = "none"
                            /\ FirstStaff(CcAddresses(cc)) # "none"
             IN Goto(p, IF assigns THEN "assignCc" ELSE "attachments",
                     [cur EXCEPT !.cc = IF assigns THEN cc ELSE <<>>])
        /\ UNCHANGED failures
  /\ UNCHANGED <<threadOf, autoRespond, supportEmail, conversations, messages, jobs, ingested, conversationEvents, realtime, lastUpdate, files>>

\* assignBasedOnCc, the update for the first staff address found.
AssignBasedOnCc(p) ==
  /\ h[p].pc = "assignCc"
  /\ \/ /\ Caught(p)
        /\ UNCHANGED updateVars
     \/ /\ Update(h[p].cur.conversation.id,
                  [assignedToId |-> FirstStaff(CcAddresses(h[p].cur.cc)), assignedToAI |-> FALSE],
                  "none", "Auto-assigned based on CC", TRUE, Now(p))
        /\ Goto(p, "attachments", [h[p].cur EXCEPT !.cc = <<>>])
        /\ UNCHANGED failures
  /\ UNCHANGED <<threadOf, autoRespond, supportEmail, messages, ingested, files>>

\* The files row of attachment k of a message, for the fate it met.
FileRow(messageId, k, fate) ==
  [ messageId |-> messageId, attachment |-> k,
    uploaded |-> fate \in {"ok", "preview"}, preview |-> fate = "ok" ]

\* Variant of the rows in which a failure ends the processing of the
\* attachments after it.
AttachmentRowsUntilFailure(messageId, attachments) ==
  { FileRow(messageId, k, attachments[k]) :
      k \in { j \in DOMAIN attachments :
                /\ attachments[j] # "insert"
                /\ \A i \in 1..(j - 1) : attachments[i] = "ok" } }

\* processGmailAttachments: each attachment on its own, a row for every one
\* whose insert went through.
AttachmentRows(messageId, attachments) ==
  { FileRow(messageId, k, attachments[k]) :
      k \in { j \in DOMAIN attachments : attachments[j] # "insert" } }

\* The functions of the jobs directory that processing the attachments calls.
AttachmentCalls(attachments) ==
  IF \E k \in DOMAIN attachments : attachments[k] \in {"ok", "preview"}
  THEN {"generateFilePreview"} ELSE {}

\* createMessageAndProcessAttachments, the attachments: every rejection is
\* caught and reported, none is passed on.
ProcessGmailAttachments(p) ==
  /\ h[p].pc = "attachments"
  /\ files' = files \cup AttachmentRows(h[p].cur.newEmail, h[p].cur.attachments)
  /\ h' = [h EXCEPT ![p] = [@ EXCEPT !.pc = "reopen",
                                     !.cur = [h[p].cur EXCEPT !.attachments = <<>>],
                                     !.direct = @ \cup AttachmentCalls(h[p].cur.attachments)]]
  /\ UNCHANGED <<threadOf, autoRespond, supportEmail, conversations, messages, jobs, failures,
                 ingested, conversationEvents, realtime, lastUpdate>>

\* Variant of the reopen condition that reopens whatever is not open.
ShouldReopenNotOpen(conversation, mode, shouldIgnore) ==
  /\ conversation.status # "open"
  /\ ~conversation.assignedToAI \/ mode = "draft"
  /\ ~shouldIgnore

\* Variant of the reopen condition without the draft mode.
ShouldReopenUnlessAI(conversation, mode, shouldIgnore) ==
  /\ conversation.status = "closed"
  /\ ~conversation.assignedToAI
  /\ ~shouldIgnore

\* The reopen condition, over the columns kept when the conversation was resolved.
ShouldReopen(conversation, mode, shouldIgnore) ==
  /\ conversation.status = "closed"
  /\ ~conversation.assignedToAI \/ mode = "draft"
  /\ ~shouldIgnore

Reopen(p) ==
  /\ h[p].pc = "reopen"
  /\ \/ /\ ShouldReopen(h[p].cur.conversation, autoRespond, h[p].cur.shouldIgnore)
        /\ Caught(p)
        /\ UNCHANGED updateVars
     \/ /\ ShouldReopen(h[p].cur.conversation, autoRespond, h[p].cur.shouldIgnore)
        /\ Update(h[p].cur.conversation.id, [status |-> "open"], "none", "none", FALSE, Now(p))
        /\ Goto(p, "autoresp", h[p].cur)
        /\ UNCHANGED failures
     \/ /\ ~ShouldReopen(h[p].cur.conversation, autoRespond, h[p].cur.shouldIgnore)
        /\ Goto(p, "autoresp", h[p].cur)
        /\ UNCHANGED <<updateVars, failures>>
  /\ UNCHANGED <<threadOf, autoRespond, supportEmail, messages, ingested, files>>

\* Is conversations/auto-response.create sent for a message?
Responds(shouldIgnore) == ~shouldIgnore

CreatedResult(cur) ==
  [ message |-> "Created message", gmailMessageId |-> cur.gmailMessageId,
    gmailThreadId |-> cur.gmailThreadId, messageId |-> cur.newEmail,
    conversationSlug |-> SlugOf(cur.conversation.id),
    responded |-> Some(~cur.shouldIgnore),
    isAutomatedResponseOrThankYou |-> cur.isAutomatedResponseOrThankYou ]

\* The auto-response event and the message's result entry.
TriggerAutoResponse(p) ==
  /\ h[p].pc = "autoresp"
  /\ \/ /\ Responds(h[p].cur.shouldIgnore)
        /\ Caught(p)
        /\ UNCHANGED jobs
     \/ /\ jobs' = IF Responds(h[p].cur.shouldIgnore)
                   THEN jobs \o triggerEvent("conversations/auto-response.create",
                                             [messageId |-> h[p].cur.newEmail], 0)
                   ELSE jobs
        /\ h' = [h EXCEPT ![p] = NextMessage(@, CreatedResult(h[p].cur))]
        /\ UNCHANGED failures
  /\ UNCHANGED <<threadOf, autoRespond, supportEmail, conversations, messages, ingested, conversationEvents, realtime, lastUpdate, files>>

\* Variant of the cursor write that stores the cursor the history was fetched with.
FetchedCursor(hp) == hp.fetches[Len(hp.fetches)].historyId

\* The cursor the handler stores after the loop: the payload's historyId.
NewCursor(hp) == hp.historyId

\* The cursor write after the loop, and the return.
PersistCursor(p) ==
  /\ h[p].pc = "cursor"
  /\ \/ /\ Raised(p)
        /\ UNCHANGED supportEmail
     \/ /\ supportEmail' = [supportEmail EXCEPT !.historyId = NewCursor(h[p])]
        /\ h' = [h EXCEPT ![p] = [@ EXCEPT !.pc = "done"]]
        /\ UNCHANGED failures
  /\ UNCHANGED <<threadOf, autoRespond, conversations, messages, jobs, ingested, conversationEvents, realtime, lastUpdate, files>>

\* ---------------------------------------------------------- environment
\* Between two deliveries.
Quiet ==
  /\ \A p \in Procs : h[p].pc \in {"idle"} \cup Finished
  /\ \E p \in Procs : h[p].pc = "idle"

Merged == {c \in DOMAIN conversations : conversations[c].mergedIntoId # 0}

\* The mergeSimilarConversations job: conversation a is absorbed into b.
MergeConversation(a, b) ==
  /\ Quiet
  /\ Cardinality(Merged) < MaxMerges
  /\ a \in DOMAIN conversations /\ b \in DOMAIN conversations /\ a # b
  /\ conversations[a].mergedIntoId = 0 /\ conversations[b].mergedIntoId = 0
  /\ conversations' = [conversations EXCEPT ![a].mergedIntoId = b]
  /\ UNCHANGED <<threadOf, autoRespond, supportEmail, messages, jobs, h, failures, ingested, conversationEvents, realtime, lastUpdate, files>>

\* The process running an invocation stops: nothing it holds is kept.
Crash(p) ==
  /\ h[p].pc \notin {"idle"} \cup Finished
  /\ CanFail
  /\ failures' = failures - 1
  /\ h' = [h EXCEPT ![p] = [@ EXCEPT !.pc = "crashed", !.cur = NoEmail]]
  /\ UNCHANGED <<threadOf, autoRespond, supportEmail, conversations, messages, jobs, ingested,
                 conversationEvents, realtime, lastUpdate, files>>

\* ------------------------------------------------------- specifications
Step(p, I) ==
  \/ LookupMailbox(p)
  \/ FetchHistory(p, I)
  \/ DedupLookup(p, I)
  \/ FetchMessage(p, I)
  \/ Classify(p, I)
  \/ ResolveConversation(p)
  \/ CreateNewConversation(p)
  \/ InsertMessage(p, I)
  \/ TouchConversation(p)
  \/ SendMessageEvents(p, I)
  \/ ReadAssignee(p)
  \/ AssignBasedOnCc(p)
  \/ ProcessGmailAttachments(p)
  \/ Reopen(p)
  \/ TriggerAutoResponse(p)
  \/ PersistCursor(p)

\* Deliveries one after the other: a delivery starts when the one before has ended.
StartInTurn(p, I) ==
  /\ \A q \in Procs : q < p => h[q].pc \in Finished
  /\ Start(p, I)

\* Overlapping deliveries: a delivery starts once the one before has started.
StartOverlapping(p, I) ==
  /\ \A q \in Procs : q < p => h[q].pc # "idle"
  /\ Start(p, I)

Merge == \E a, b \in DOMAIN conversations : MergeConversation(a, b)

\* Successive deliveries of emails that vary in every header the handler reads.
Init == InitWith(IntakeInputs)

Next ==
  \/ \E p \in Procs : StartInTurn(p, IntakeInputs)
  \/ \E p \in Procs : Step(p, IntakeInputs)

Spec == Init /\ [][Next]_vars

\* Successive deliveries of the emails of up to ThreadMsgs messages.
InitThreads == InitWith(ThreadInputs)

NextThreads ==
  \/ \E p \in Procs : StartInTurn(p, ThreadInputs)
  \/ \E p \in Procs : Step(p, ThreadInputs)
  \/ Merge

SpecThreads == InitThreads /\ [][NextThreads]_vars

\* Successive deliveries that vary in token, record, cursors and responses,
\* and may stop at any point.
InitWebhook == InitWith(WebhookInputs)

NextWebhook ==
  \/ \E p \in Procs : StartInTurn(p, WebhookInputs)
  \/ \E p \in Procs : Step(p, WebhookInputs)
  \/ \E p \in Procs : Crash(p)

SpecWebhook == InitWebhook /\ [][NextWebhook]_vars

\* updateConversation called by any of its callers: conversations in every
\* status, updates that set the status, another column or both, with and
\* without realtime events, for a conversation that exists or not.
UpdateStatuses == {"open", "closed", "spam"}

UpdateSets ==
  {[status |-> s] : s \in UpdateStatuses}
  \cup {[assignedToId |-> "user_staff"]}
  \cup {[status |-> "closed", assignedToId |-> "user_staff"]}
  \cup {[status |-> "open", closedAt |-> 0]}

\* Who calls, and the reason given: neither, or a user with a reason.
UpdateCallers ==
  { [byUserId |-> "none", reason |-> "none"],
    [byUserId |-> "user_staff", reason |-> "Closed manually"] }

ExistingConversation(status) ==
  [ status |-> status,
    closedAt |-> IF status = "closed" THEN 1 ELSE 0,
    assignedToAI |-> FALSE,
    assignedToId |-> "none",
    mergedIntoId |-> 0,
    lastMessageAt |-> 0,
    lastUserEmailCreatedAt |-> 0,
    lastReadAt |-> 0 ]

InitUpdates ==
  /\ threadOf = <<1>>
  /\ autoRespond = "null"
  /\ supportEmail = ValidSupportEmail(1)
  /\ conversations \in [1..UpdateConvs -> {ExistingConversation(s) : s \in UpdateStatuses}]
  /\ messages = <<>>
  /\ conversationEvents = <<>>
  /\ realtime = <<>>
  /\ jobs = <<>>
  /\ h = [p \in Procs |-> IdleHandler]
  /\ failures = 0
  /\ ingested = <<>>
  /\ lastUpdate = NoUpdate
  /\ files = {}

\* A call for a conversation that exists.
UpdateConversation(id, set, caller, skipRealtimeEvents) ==
  /\ id \in DOMAIN conversations
  /\ Len(conversationEvents) < MaxUpdates
  /\ Update(id, set, caller.byUserId, caller.reason, skipRealtimeEvents,
            Len(conversationEvents) + 2)
  /\ UNCHANGED <<threadOf, autoRespond, supportEmail, messages, h, failures, ingested, files>>

\* A call for an id no conversation has: null is returned, nothing happens.
UpdateMissing(id, set, caller, skipRealtimeEvents) ==
  /\ id \notin DOMAIN conversations
  /\ Update(id, set, caller.byUserId, caller.reason, skipRealtimeEvents,
            Len(conversationEvents) + 2)
  /\ UNCHANGED <<threadOf, autoRespond, supportEmail, messages, h, failures, ingested, files>>

NextUpdates ==
  \/ \E id \in 1..UpdateConvs : \E set \in UpdateSets : \E caller \in UpdateCallers :
       \E skipRealtimeEvents \in BOOLEAN :
         UpdateConversation(id, set, caller, skipRealtimeEvents)
  \/ \E caller \in UpdateCallers : \E skipRealtimeEvents \in BOOLEAN :
       UpdateMissing(UpdateConvs + 1, [status |-> "closed"], caller, skipRealtimeEvents)

SpecUpdates == InitUpdates /\ [][NextUpdates]_vars

\* createConversationMessage called by any of its callers: rows of every
\* role and status, with and without a user, and calls that reject at the
\* insert, at the conversation's update or in some of the triggerEvent calls.
MessageRows ==
  { [ gmailMessageId |-> 0, gmailThreadId |-> 0, conversationId |-> 1, emailFrom |-> "none",
      role |-> role, status |-> status, userId |-> userId, createdAt |-> 1 ] :
    role \in {"user", "staff", "ai_assistant"},
    status \in {"null", "draft", "queueing", "sent"},
    userId \in {"none", "user_staff"} }

InitMessages ==
  /\ threadOf = <<1>>
  /\ autoRespond = "null"
  /\ supportEmail = ValidSupportEmail(1)
  /\ conversations = <<ExistingConversation("open")>>
  /\ messages = <<>>
  /\ conversationEvents = <<>>
  /\ realtime = <<>>
  /\ jobs = <<>>
  /\ h = [p \in Procs |-> IdleHandler]
  /\ failures = MaxFailures
  /\ ingested = <<>>
  /\ lastUpdate = NoUpdate
  /\ files = {}

\* A call that returns the message.
createConversationMessage(row) ==
  /\ Len(messages) < MaxCreated
  /\ messages' = Append(messages, row)
  /\ LET now == Len(messages) + 2
         stamps == LastMessageStamps(row.role, now)
         events == EventsToSend(Len(messages) + 1, row)
     IN /\ UpdateRows(row.conversationId, stamps, "none", "none", TRUE, now)
        /\ jobs' = jobs \o UpdateJobs(conversations, row.conversationId, stamps)
                        \o SendAll(events, DOMAIN events)
  /\ UNCHANGED <<threadOf, autoRespond, supportEmail, h, failures, ingested, files>>

\* A call that rejects: at the insert, at the update of the conversation, or
\* in some of the triggerEvent calls.
createConversationMessageRejects(row, at) ==
  /\ Len(messages) < MaxCreated
  /\ CanFail
  /\ failures' = failures - 1
  /\ LET now == Len(messages) + 2
         stamps == LastMessageStamps(row.role, now)
         events == EventsToSend(Len(messages) + 1, row)
     IN CASE at = "insert" ->
               UNCHANGED <<messages, conversations, conversationEvents, realtime, jobs, lastUpdate>>
          [] at = "update" ->
               /\ messages' = Append(messages, row)
               /\ UNCHANGED <<conversations, conversationEvents, realtime, jobs, lastUpdate>>
          [] at = "events" ->
               /\ messages' = Append(messages, row)
               /\ UpdateRows(row.conversationId, stamps, "none", "none", TRUE, now)
               /\ \E sent \in SUBSET (DOMAIN events) :
                    /\ sent # DOMAIN events
                    /\ jobs' = jobs \o UpdateJobs(conversations, row.conversationId, stamps)
                                    \o SendAll(events, sent)
  /\ UNCHANGED <<threadOf, autoRespond, supportEmail, h, ingested, files>>

NextMessages ==
  \/ \E row \in MessageRows : createConversationMessage(row)
  \/ \E row \in MessageRows : \E at \in {"insert", "update", "events"} :
       createConversationMessageRejects(row, at)

SpecMessages == InitMessages /\ [][NextMessages]_vars

\* Successive deliveries of an email with up to MaxAttachments attachments,
\* each of which may fail at any of its steps.
InitAttachments == InitWith(AttachmentInputs)

NextAttachments ==
  \/ \E p \in Procs : StartInTurn(p, AttachmentInputs)
  \/ \E p \in Procs : Step(p, AttachmentInputs)

SpecAttachments == InitAttachments /\ [][NextAttachments]_vars

\* ------------------------------------------------ reply participants
\* extractAddresses: the bare addresses of an address list, in order, the
\* display names dropped, duplicates kept.
extractAddresses(list) == [k \in DOMAIN list |-> list[k].address]

\* A list without the later occurrences of its elements.
RECURSIVE Deduplicated(_)
Deduplicated(list) ==
  IF list = <<>> THEN <<>>
  ELSE LET front == Deduplicated(SubSeq(list, 1, Len(list) - 1))
           last == list[Len(list)]
       IN IF \E k \in DOMAIN front : front[k] = last THEN front ELSE Append(front, last)

\* The To and Cc addresses of the messages in order; which of a message's two
\* fields is read first is not fixed.
RECURSIVE Recipients(_, _)
Recipients(msgs, toFirst) ==
  IF msgs = <<>> THEN <<>>
  ELSE LET to == extractAddresses(Head(msgs).emailTo)
           cc == Head(msgs).emailCc
       IN (IF toFirst THEN to \o cc ELSE cc \o to) \o Recipients(Tail(msgs), toFirst)

\* Variant that keeps the conversation's own emailFrom address.
getNonSupportParticipantsKeepsFrom(conversation, msgs, toFirst) ==
  LET lowered == [k \in DOMAIN Recipients(msgs, toFirst) |->
                    addressToLowerCase(Recipients(msgs, toFirst)[k])]
  IN Deduplicated(SelectSeq(lowered, LAMBDA a : a # addressToLowerCase(SupportAddr)))

\* getNonSupportParticipants: the recipients of the conversation's messages,
\* lowercased and without duplicates, but for the mailbox's support address
\* and the conversation's emailFrom.
getNonSupportParticipants(conversation, msgs, toFirst) ==
  LET lowered == [k \in DOMAIN Recipients(msgs, toFirst) |->
                    addressToLowerCase(Recipients(msgs, toFirst)[k])]
  IN Deduplicated(SelectSeq(lowered, LAMBDA a :
                    /\ a # addressToLowerCase(SupportAddr)
                    /\ a # addressToLowerCase(conversation.emailFrom)))

\* The To headers and Cc lists the messages of the conversation may have.
ToHeaders ==
  { <<>>,
    << [name |-> "New Example", address |-> OtherAddr], [name |-> "", address |-> StaffAddr],
       [name |-> "Support Email", address |-> SupportAddr] >>,
    << [name |-> "", address |-> CustomerAddr], [name |-> "Acme", address |-> NoReplyAddr],
       [name |-> "", address |-> OtherAddr] >>,
    << [name |-> "Support", address |-> MixedCaseSupportAddr],
       [name |-> "", address |-> StaffAddr] >> }

CcLists == { <<>>, <<StaffAddr, SupportAddr>>, <<OtherAddr, CustomerAddr>> }

ParticipantMessages ==
  { [ gmailMessageId |-> 0, gmailThreadId |-> 0, conversationId |-> 1, emailFrom |-> "none",
      role |-> "user", status |-> "null", userId |-> "none", createdAt |-> 1,
      emailTo |-> to, emailCc |-> cc ] : to \in ToHeaders, cc \in CcLists }

InitParticipants ==
  /\ threadOf = <<1>>
  /\ autoRespond = "null"
  /\ supportEmail = ValidSupportEmail(1)
  /\ conversations = << [ status |-> "open", closedAt |-> 0, assignedToAI |-> FALSE,
                          assignedToId |-> "none", mergedIntoId |-> 0, lastMessageAt |-> 0,
                          lastUserEmailCreatedAt |-> 0, lastReadAt |-> 0,
                          emailFrom |-> CustomerAddr ] >>
  /\ messages \in UNION {[1..n -> ParticipantMessages] : n \in 1..MaxParticipantMsgs}
  /\ conversationEvents = <<>>
  /\ realtime = <<>>
  /\ jobs = <<>>
  /\ h = [p \in Procs |-> IdleHandler]
  /\ failures = 0
  /\ ingested = <<>>
  /\ lastUpdate = NoUpdate
  /\ files = {}

\* One call for conversation 1, its result kept in the caller's results.
GetNonSupportParticipants(p) ==
  /\ h[p].pc = "idle"
  /\ \E toFirst \in BOOLEAN :
       h' = [h EXCEPT ![p].pc = "returned",
                      ![p].results = getNonSupportParticipants(conversations[1], messages, toFirst)]
  /\ UNCHANGED <<threadOf, autoRespond, supportEmail, conversations, messages, jobs, failures,
                 ingested, conversationEvents, realtime, lastUpdate, files>>

NextParticipants == \E p \in Procs : GetNonSupportParticipants(p)

SpecParticipants == InitParticipants /\ [][NextParticipants]_vars

\* ------------------------------------------------------------ replies
\* The arguments of a createReply call: the conversation (the last id is of
\* no conversation), the user, close and shouldAutoAssign; fileSlugs is the
\* one uploaded file, cc and bcc are given.
ReplyArgs ==
  [ conversationId : 1..3, user : {"none", "user_staff"}, close : BOOLEAN,
    shouldAutoAssign : BOOLEAN ]

NoTables == [conversations |-> <<>>, messages |-> <<>>, conversationEvents |-> <<>>, files |-> {}]

\* A createReply call that has not started.
IdleReply ==
  [ pc |-> "idle",
    args |-> [conversationId |-> 0, user |-> "none", close |-> FALSE, shouldAutoAssign |-> FALSE],
    conversation |-> ExistingConversation("open"),
    tx |-> NoTables, createdMessage |-> 0, returned |-> "none" ]

ReplyEnded == {"done", "raised", "rolledback"}

\* What is committed.
Tables ==
  [ conversations |-> conversations, messages |-> messages,
    conversationEvents |-> conversationEvents, files |-> files ]

tables == <<conversations, messages, conversationEvents, files>>

\* An open conversation and one marked as spam, no messages, one uploaded
\* file that no message has yet.
InitReply ==
  /\ threadOf = <<1>>
  /\ autoRespond = "null"
  /\ supportEmail = ValidSupportEmail(1)
  /\ conversations = <<ExistingConversation("open"), ExistingConversation("spam")>>
  /\ messages = <<>>
  /\ conversationEvents = <<>>
  /\ realtime = <<>>
  /\ jobs = <<>>
  /\ h = [p \in Procs |-> IdleReply]
  /\ failures = MaxFailures
  /\ ingested = <<>>
  /\ lastUpdate = NoUpdate
  /\ files = {[slug |-> "file_1", messageId |-> 0]}

\* createAiDraft: a draft of the assistant, created between replies.
createAiDraft(conversationId) ==
  /\ \A p \in Procs : h[p].pc \in {"idle"} \cup ReplyEnded
  /\ Len(SelectSeq(messages, LAMBDA m : m.role = "ai_assistant")) < MaxDrafts
  /\ messages' = Append(messages,
                        [ gmailMessageId |-> 0, gmailThreadId |-> 0,
                          conversationId |-> conversationId, emailFrom |-> "none",
                          role |-> "ai_assistant", status |-> "draft", userId |-> "none",
                          createdAt |-> 1 ])
  /\ Update(conversationId, LastMessageStamps("ai_assistant", 1), "none", "none", TRUE, 1)
  /\ UNCHANGED <<threadOf, autoRespond, supportEmail, h, failures, ingested, files>>

\* createReply before the transaction: the conversation is read, and the
\* call raises when there is none.
ReplyStart(p, args) ==
  /\ h[p].pc = "idle"
  /\ \A q \in Procs : q < p => h[q].pc \in ReplyEnded
  /\ IF args.conversationId \in DOMAIN conversations
     THEN h' = [h EXCEPT ![p] = [IdleReply EXCEPT !.pc = "begin", !.args = args,
                                   !.conversation = conversations[args.conversationId]]]
     ELSE h' = [h EXCEPT ![p] = [IdleReply EXCEPT !.pc = "raised", !.args = args,
                                   !.returned = "Error: Conversation not found"]]
  /\ UNCHANGED <<threadOf, autoRespond, supportEmail, conversations, messages, jobs, failures,
                 ingested, conversationEvents, realtime, lastUpdate, files>>

\* The transaction begins: its statements see what is committed by now.
ReplyBegin(p) ==
  /\ h[p].pc = "begin"
  /\ h' = [h EXCEPT ![p].pc = "assign", ![p].tx = Tables]
  /\ UNCHANGED <<threadOf, autoRespond, supportEmail, conversations, messages, jobs, failures,
                 ingested, conversationEvents, realtime, lastUpdate, files>>

\* An updateConversation call inside the transaction: the row and the audit
\* row are written in the transaction, the publishes and the event go out.
ReplyUpdate(p, label, set, byUserId) ==
  LET tx == h[p].tx
      id == h[p].args.conversationId
  IN /\ h' = [h EXCEPT ![p].pc = label,
                        ![p].tx = [tx EXCEPT
                           !.conversations = updateConversation(tx.conversations, id, set, Now(p)),
                           !.conversationEvents =
                              @ \o UpdateLog(tx.conversations, id, set, byUserId, "none")]]
     /\ realtime' = realtime \o UpdatePublishes(tx.conversations, id, set, FALSE, Now(p))
     /\ jobs' = jobs \o UpdateJobs(tx.conversations, id, set)

\* The reply auto-assignment.
ReplyAssign(p) ==
  /\ h[p].pc = "assign"
  /\ IF /\ h[p].args.shouldAutoAssign /\ h[p].args.user # "none"
        /\ h[p].conversation.assignedToId = "none"
     THEN ReplyUpdate(p, "insert", [assignedToId |-> h[p].args.user, assignedToAI |-> FALSE],
                      "none")
     ELSE /\ h' = [h EXCEPT ![p].pc = "insert"]
          /\ UNCHANGED <<realtime, jobs>>
  /\ UNCHANGED <<threadOf, autoRespond, supportEmail, conversations, messages, failures,
                 ingested, conversationEvents, lastUpdate, files>>

\* The row of the reply.
ReplyRow(args) ==
  [ gmailMessageId |-> 0, gmailThreadId |-> 0, conversationId |-> args.conversationId,
    emailFrom |-> "none", role |-> "staff", status |-> "queueing", userId |-> args.user,
    createdAt |-> 1 ]

\* createConversationMessage inside the transaction: the insert and the stamps
\* are written in the transaction; triggerEvent sends through the database
\* client, not the transaction, so what it sent stays sent.
ReplyInsert(p) ==
  /\ h[p].pc = "insert"
  /\ LET tx == h[p].tx
         row == ReplyRow(h[p].args)
         id == Len(tx.messages) + 1
         stamps == LastMessageStamps(row.role, Now(p))
         events == EventsToSend(id, row)
         written == [tx EXCEPT
                       !.messages = Append(@, row),
                       !.conversations = updateConversation(@, row.conversationId, stamps, Now(p)),
                       !.conversationEvents =
                          @ \o UpdateLog(tx.conversations, row.conversationId, stamps, "none", "none")]
     IN \/ /\ h' = [h EXCEPT ![p].pc = "files", ![p].tx = written, ![p].createdMessage = id]
           /\ jobs' = jobs \o SendAll(events, DOMAIN events)
           /\ UNCHANGED failures
        \/ /\ CanFail
           /\ failures' = failures - 1
           /\ \E sent \in SUBSET (DOMAIN events) :
                /\ sent # DOMAIN events
                /\ jobs' = jobs \o SendAll(events, sent)
           /\ h' = [h EXCEPT ![p].pc = "rolledback", ![p].tx = NoTables]
  /\ UNCHANGED <<threadOf, autoRespond, supportEmail, conversations, messages, ingested,
                 conversationEvents, realtime, lastUpdate, files>>

\* finishFileUpload: the uploaded files of the reply get its message id.
finishFileUpload(rows, fileSlugs, messageId) ==
  { IF f.slug \in fileSlugs THEN [f EXCEPT !.messageId = messageId] ELSE f : f \in rows }

ReplyFiles(p) ==
  /\ h[p].pc = "files"
  /\ h' = [h EXCEPT ![p].pc = "close",
                    ![p].tx = [h[p].tx EXCEPT
                       !.files = finishFileUpload(@, {"file_1"}, h[p].createdMessage)]]
  /\ UNCHANGED <<threadOf, autoRespond, supportEmail, conversations, messages, jobs, failures,
                 ingested, conversationEvents, realtime, lastUpdate, files>>

\* The close on reply, decided on the conversation as read before the
\* transaction.
ReplyClose(p) ==
  /\ h[p].pc = "close"
  /\ IF h[p].args.close /\ h[p].conversation.status # "spam"
     THEN ReplyUpdate(p, "discard", [status |-> "closed"], h[p].args.user)
     ELSE /\ h' = [h EXCEPT ![p].pc = "discard"]
          /\ UNCHANGED <<realtime, jobs>>
  /\ UNCHANGED <<threadOf, autoRespond, supportEmail, conversations, messages, failures,
                 ingested, conversationEvents, lastUpdate, files>>

\* Variant of the discard that discards the last draft only.
discardLastAiGeneratedDraft(rows, conversationId) ==
  LET IsDraft(k) == /\ rows[k].conversationId = conversationId
                    /\ rows[k].role = "ai_assistant" /\ rows[k].status = "draft"
  IN [k \in DOMAIN rows |->
        IF IsDraft(k) /\ \A j \in DOMAIN rows : IsDraft(j) => j <= k
        THEN [rows[k] EXCEPT !.status = "discarded"] ELSE rows[k]]

\* discardAiGeneratedDrafts: every draft of the assistant in the conversation.
discardAiGeneratedDrafts(rows, conversationId) ==
  [k \in DOMAIN rows |->
     IF /\ rows[k].conversationId = conversationId
        /\ rows[k].role = "ai_assistant" /\ rows[k].status = "draft"
     THEN [rows[k] EXCEPT !.status = "discarded"] ELSE rows[k]]

ReplyDiscard(p) ==
  /\ h[p].pc = "discard"
  /\ h' = [h EXCEPT ![p].pc = "commit",
                    ![p].tx = [h[p].tx EXCEPT
                       !.messages = discardAiGeneratedDrafts(@, h[p].args.conversationId)]]
  /\ UNCHANGED <<threadOf, autoRespond, supportEmail, conversations, messages, jobs, failures,
                 ingested, conversationEvents, realtime, lastUpdate, files>>

\* The callback returned: the transaction commits all it wrote.
ReplyCommit(p) ==
  /\ h[p].pc = "commit"
  /\ conversations' = h[p].tx.conversations
  /\ messages' = h[p].tx.messages
  /\ conversationEvents' = h[p].tx.conversationEvents
  /\ files' = h[p].tx.files
  /\ h' = [h EXCEPT ![p].pc = "done", ![p].tx = NoTables]
  /\ UNCHANGED <<threadOf, autoRespond, supportEmail, jobs, failures, ingested, realtime,
                 lastUpdate>>

\* Variant of the rollback that keeps the inserted message.
AfterRollbackKeepsMessage(committed, tx) == [committed EXCEPT !.messages = tx.messages]

\* What is committed after a rollback: what was committed before.
AfterRollback(committed, tx) == committed

\* A statement of the transaction rejects: the callback throws, the
\* transaction is rolled back, createReply rejects.
ReplyRollback(p) ==
  /\ h[p].pc \in {"assign", "insert", "files", "close", "discard", "commit"}
  /\ CanFail
  /\ failures' = failures - 1
  /\ conversations' = AfterRollback(Tables, h[p].tx).conversations
  /\ messages' = AfterRollback(Tables, h[p].tx).messages
  /\ conversationEvents' = AfterRollback(Tables, h[p].tx).conversationEvents
  /\ files' = AfterRollback(Tables, h[p].tx).files
  /\ h' = [h EXCEPT ![p].pc = "rolledback", ![p].tx = NoTables]
  /\ UNCHANGED <<threadOf, autoRespond, supportEmail, jobs, ingested, realtime, lastUpdate>>

NextReply ==
  \/ \E conversationId \in DOMAIN conversations : createAiDraft(conversationId)
  \/ \E p \in Procs : \E args \in ReplyArgs : ReplyStart(p, args)
  \/ \E p \in Procs : ReplyBegin(p)
  \/ \E p \in Procs : ReplyAssign(p)
  \/ \E p \in Procs : ReplyInsert(p)
  \/ \E p \in Procs : ReplyFiles(p)
  \/ \E p \in Procs : ReplyClose(p)
  \/ \E p \in Procs : ReplyDiscard(p)
  \/ \E p \in Procs : ReplyCommit(p)
  \/ \E p \in Procs : ReplyRollback(p)

SpecReply == InitReply /\ [][NextReply]_vars

\* Successive deliveries whose histories follow the stored cursor.
InitHistory == InitWith(HistoryInputs)

NextHistory ==
  \/ \E p \in Procs : StartInTurn(p, HistoryInputs)
  \/ \E p \in Procs : Step(p, HistoryInputs)

SpecHistory == InitHistory /\ [][NextHistory]_vars

\* ------------------------------------------------------------- drafts
\* A generateDraftResponse call that has not started.
IdleDraft ==
  [pc |-> "idle", conversationId |-> 0, lastUserMessage |-> 0, oldDraft |-> 0, returned |-> "none"]

DraftEnded == {"done", "raised"}

\* A message row of a conversation that does not come from Gmail.
LocalRow(conversationId, role, status, createdAt) ==
  [ gmailMessageId |-> 0, gmailThreadId |-> 0, conversationId |-> conversationId,
    emailFrom |-> "none", role |-> role, status |-> status, userId |-> "none",
    createdAt |-> createdAt ]

\* Two conversations, the first with a message of the customer and with or
\* without a draft, the second with or without a message.
InitDrafts ==
  /\ threadOf = <<1>>
  /\ autoRespond = "draft"
  /\ supportEmail = ValidSupportEmail(1)
  /\ conversations = <<ExistingConversation("open"), ExistingConversation("open")>>
  /\ messages \in { <<LocalRow(1, "user", "null", 1)>>,
                     <<LocalRow(1, "user", "null", 1), LocalRow(1, "ai_assistant", "draft", 2)>>,
                     <<LocalRow(1, "user", "null", 1), LocalRow(2, "user", "null", 2)>> }
  /\ conversationEvents = <<>>
  /\ realtime = <<>>
  /\ jobs = <<>>
  /\ h = [p \in Procs |-> IdleDraft]
  /\ failures = MaxFailures
  /\ ingested = <<>>
  /\ lastUpdate = NoUpdate
  /\ files = {}

\* findFirst over the rows found by the where clause, newest createdAt first:
\* the rows it may return.
Newest(rows, found) ==
  {k \in found : \A j \in found : rows[j].createdAt <= rows[k].createdAt}

\* getLastAiGeneratedDraft: the newest draft of the assistant in the conversation.
getLastAiGeneratedDraft(rows, conversationId) ==
  Newest(rows, {k \in DOMAIN rows : /\ rows[k].conversationId = conversationId
                                    /\ rows[k].role = "ai_assistant"
                                    /\ rows[k].status = "draft"})

\* generateDraftResponse, the read of the last message of the customer.
DraftStart(p, conversationId) ==
  /\ h[p].pc = "idle"
  /\ LET last == Newest(messages, {k \in DOMAIN messages : /\ messages[k].conversationId = conversationId
                                                           /\ messages[k].role = "user"})
     IN IF last = {}
        THEN h' = [h EXCEPT ![p] = [IdleDraft EXCEPT !.pc = "raised",
                                      !.conversationId = conversationId,
                                      !.returned = "TRPCError: NOT_FOUND"]]
        ELSE \E k \in last :
               h' = [h EXCEPT ![p] = [IdleDraft EXCEPT !.pc = "oldDraft",
                                        !.conversationId = conversationId,
                                        !.lastUserMessage = k]]
  /\ UNCHANGED <<threadOf, autoRespond, supportEmail, conversations, messages, jobs, failures,
                 ingested, conversationEvents, realtime, lastUpdate, files>>

\* generateDraftResponse, the read of the old draft, before the response is
\* generated and outside the transaction.
DraftReadOld(p) ==
  /\ h[p].pc = "oldDraft"
  /\ LET last == getLastAiGeneratedDraft(messages, h[p].conversationId)
     IN IF last = {}
        THEN h' = [h EXCEPT ![p].pc = "generate"]
        ELSE \E k \in last : h' = [h EXCEPT ![p].pc = "generate", ![p].oldDraft = k]
  /\ UNCHANGED <<threadOf, autoRespond, supportEmail, conversations, messages, jobs, failures,
                 ingested, conversationEvents, realtime, lastUpdate, files>>

\* generateDraftResponse, the generation of the response: it returns a text
\* or rejects.
DraftGenerate(p) ==
  /\ h[p].pc = "generate"
  /\ \/ /\ h' = [h EXCEPT ![p].pc = "write"]
        /\ UNCHANGED failures
     \/ /\ CanFail
        /\ failures' = failures - 1
        /\ h' = [h EXCEPT ![p].pc = "raised"]
  /\ UNCHANGED <<threadOf, autoRespond, supportEmail, conversations, messages, jobs,
                 ingested, conversationEvents, realtime, lastUpdate, files>>

\* generateDraftResponse's transaction: the old draft read before is
\* discarded by its id, the new draft is inserted by createAiDraft.
DraftWritten(rows, conversationId, oldDraft) ==
  Append([k \in DOMAIN rows |->
            IF k = oldDraft THEN [rows[k] EXCEPT !.status = "discarded"] ELSE rows[k]],
         LocalRow(conversationId, "ai_assistant", "draft", Len(rows) + 1))

\* The transaction commits, with the stamps createConversationMessage
\* writes, or a statement rejects and nothing of it is kept.
DraftWrite(p) ==
  /\ h[p].pc = "write"
  /\ \/ /\ messages' = DraftWritten(messages, h[p].conversationId, h[p].oldDraft)
        /\ Update(h[p].conversationId, LastMessageStamps("ai_assistant", Now(p)),
                  "none", "none", TRUE, Now(p))
        /\ h' = [h EXCEPT ![p].pc = "done", ![p].returned = "draft"]
        /\ UNCHANGED failures
     \/ /\ CanFail
        /\ failures' = failures - 1
        /\ h' = [h EXCEPT ![p].pc = "raised"]
        /\ UNCHANGED <<messages, updateVars>>
  /\ UNCHANGED <<threadOf, autoRespond, supportEmail, ingested, files>>

\* Calls of generateDraftResponse that may overlap.
NextDrafts ==
  \/ \E p \in Procs : \E conversationId \in DOMAIN conversations : DraftStart(p, conversationId)
  \/ \E p \in Procs : DraftReadOld(p)
  \/ \E p \in Procs : DraftGenerate(p)
  \/ \E p \in Procs : DraftWrite(p)

SpecDrafts == InitDrafts /\ [][NextDrafts]_vars

\* ------------------------------------------------- status under overlap
\* Call 1 is a createReply call, the others are webhook deliveries.
Deliveries == Procs \ {1}

\* Conversation 1 holds message 1 of thread 1, from the customer; message 2
\* is of that thread, message 3 starts a thread and message 4 is of a thread
\* whose first message is not persisted.
InitStatus ==
  /\ threadOf = <<1, 1, 3, 3>>
  /\ autoRespond = "null"
  /\ supportEmail = ValidSupportEmail(1)
  /\ conversations \in {<<ExistingConversation(status)>> : status \in UpdateStatuses}
  /\ messages = << [ gmailMessageId |-> 1, gmailThreadId |-> 1, conversationId |-> 1,
                     emailFrom |-> CustomerAddr, role |-> "user", status |-> "null",
                     userId |-> "none", createdAt |-> 1 ] >>
  /\ conversationEvents = <<>>
  /\ realtime = <<>>
  /\ jobs = <<>>
  /\ h = [p \in Procs |-> IF p = 1 THEN IdleReply ELSE IdleHandler]
  /\ failures = MaxFailures
  /\ ingested = <<[shouldIgnore |-> FALSE, classifier |-> "answered", by |-> 0]>>
  /\ lastUpdate = NoUpdate
  /\ files = {[slug |-> "file_1", messageId |-> 0]}

\* The replies of the staff member to conversation 1.
StatusReplyArgs == {a \in ReplyArgs : a.conversationId = 1 /\ a.user = "user_staff"}

\* The statements of a transaction take effect together when it commits, so
\* nothing else is taken to run while the reply's transaction is open; what
\* runs between the reply's read of the conversation and its transaction does.
NoOpenTransaction == ~(h[1].pc \in {"assign", "insert", "files", "close", "discard", "commit"})

\* An agent sets the status of a conversation.
SetStatus(id, status) ==
  /\ NoOpenTransaction
  /\ id \in DOMAIN conversations
  /\ Len(SelectSeq(conversationEvents, LAMBDA e : e.reason = "Status set by agent"))
       < MaxStatusSets
  /\ Update(id, [status |-> status], "user_staff", "Status set by agent", FALSE,
            Len(conversationEvents) + 2)
  /\ UNCHANGED <<threadOf, autoRespond, supportEmail, messages, h, failures, ingested, files>>

\* The steps of the reply.
ReplyStep(p) ==
  \/ \E args \in StatusReplyArgs : ReplyStart(p, args)
  \/ ReplyBegin(p)
  \/ ReplyAssign(p)
  \/ ReplyInsert(p)
  \/ ReplyFiles(p)
  \/ ReplyClose(p)
  \/ ReplyDiscard(p)
  \/ ReplyCommit(p)
  \/ ReplyRollback(p)

\* The deliveries come one after the other.
StartDelivery(p, I) ==
  /\ \A q \in Deliveries : q < p => h[q].pc \in Finished
  /\ Start(p, I)

NextStatus ==
  \/ ReplyStep(1)
  \/ \E p \in Deliveries : NoOpenTransaction /\ StartDelivery(p, StatusInputs)
  \/ \E p \in Deliveries : NoOpenTransaction /\ Step(p, StatusInputs)
  \/ \E id \in DOMAIN conversations : \E status \in UpdateStatuses : SetStatus(id, status)

SpecStatus == InitStatus /\ [][NextStatus]_vars

\* Overlapping deliveries.
InitConcurrent == InitWith(OverlapInputs)

NextConcurrent ==
  \/ \E p \in Procs : StartOverlapping(p, OverlapInputs)
  \/ \E p \in Procs : Step(p, OverlapInputs)

SpecConcurrent == InitConcurrent /\ [][NextConcurrent]_vars

\* ------------------------------------------------------------ properties
\* The jobs queued by conversations/auto-response.create for message row k.
AutoResponseJobs(k) ==
  {j \in DOMAIN jobs : /\ jobs[j].event = "conversations/auto-response.create"
                       /\ jobs[j].data.json.messageId = k}

\* The handling of message row k has ended: no delivery is still working on it.
Ended(k) == \A p \in Procs : h[p].cur.newEmail # k

\* C7: a conversation that ingestion has just created is closed with closedAt
\* set when the message is ignorable, open with closedAt empty otherwise; its
\* assignedToAI says whether the mailbox has an auto-respond mode; it has no
\* assignee.
C7_CreationDefaults ==
  \A p \in Procs :
    (h[p].pc = "insertMsg" /\ h[p].cur.createdConversation) =>
      LET row == conversations[h[p].cur.conversation.id] IN
        /\ h[p].cur.shouldIgnore => (row.status = "closed" /\ row.closedAt # 0)
        /\ ~h[p].cur.shouldIgnore => (row.status = "open" /\ row.closedAt = 0)
        /\ row.assignedToAI = (autoRespond \in {"draft", "reply"})
        /\ row.assignedToId = "none"

C7_Witness ==
  \E p \in Procs :
    /\ h[p].pc = "insertMsg" /\ h[p].cur.createdConversation
    /\ h[p].cur.shouldIgnore /\ autoRespond = "reply"
    /\ conversations[h[p].cur.conversation.id].status = "closed"

\* C8: once the ignore decision of a message is taken, it is true exactly when
\* the sender is staff and the message is not the first of its thread, or a
\* label is one of the four ignored categories, or the sender is transactional,
\* or the classifier answered yes; and the classifier was asked exactly when
\* none of the first three holds.
C8_IgnoreDecision ==
  \A p \in Procs :
    LET cur == h[p].cur
        cheap == \/ cur.from = StaffAddr /\ cur.gmailMessageId # cur.gmailThreadId
                 \/ cur.labelIds \cap {"CATEGORY_PROMOTIONS", "CATEGORY_UPDATES",
                                       "CATEGORY_FORUMS", "CATEGORY_SOCIAL"} # {}
                 \/ cur.from = NoReplyAddr
    IN /\ h[p].pc = "classify" => ~cheap
       /\ h[p].pc = "resolve" =>
            /\ (cur.ai # None) = ~cheap
            /\ cur.shouldIgnore = (cheap \/ cur.isAutomatedResponseOrThankYou = Some(TRUE))

C8_Witness ==
  \E p \in Procs :
    /\ h[p].pc = "resolve"
    /\ h[p].cur.from = StaffAddr /\ h[p].cur.gmailMessageId # h[p].cur.gmailThreadId
    /\ h[p].cur.labelIds = {"INBOX"}
    /\ h[p].cur.ai = None /\ h[p].cur.shouldIgnore

\* A text that is "yes" in any letter case between white space.
ReadsYes(t) ==
  \E i \in 1..Len(t) :
    /\ i + 2 <= Len(t)
    /\ t[i] \in {"y", "Y"} /\ t[i + 1] \in {"e", "E"} /\ t[i + 2] \in {"s", "S"}
    /\ \A j \in DOMAIN t : j \notin {i, i + 1, i + 2} => t[j] \in {" ", "\n", "\t"}

\* C9: the classifier answers true only when the model call succeeded and its
\* text reads "yes" once trimmed and lower-cased; when the call failed the
\* answer is false and the message is not ignorable, the conversation created
\* for it is open, and the step that records it as created queues exactly one
\* conversations/auto-response.create job for it and reports responded.
C9_ClassifierFailsOpen ==
  /\ [](\A p \in Procs :
          LET cur == h[p].cur IN
            /\ cur.isAutomatedResponseOrThankYou = Some(TRUE) =>
                 (cur.ai # None /\ cur.ai[1].ok /\ ReadsYes(cur.ai[1].text))
            /\ cur.ai = Some(AIFailure) =>
                 /\ cur.isAutomatedResponseOrThankYou = Some(FALSE)
                 /\ ~cur.shouldIgnore
                 /\ (h[p].pc = "insertMsg" /\ cur.createdConversation) =>
                      conversations[cur.conversation.id].status = "open")
  /\ [][\A p \in Procs :
          (/\ h[p].cur.ai = Some(AIFailure)
           /\ Len(h'[p].results) > Len(h[p].results)
           /\ h'[p].results[Len(h'[p].results)].message = "Created message") =>
            /\ h'[p].results[Len(h'[p].results)].responded = Some(TRUE)
            /\ jobs' = Append(jobs, [event |-> "conversations/auto-response.create",
                                     job |-> "handleAutoResponse",
                                     data |-> [json |-> [messageId |-> h[p].cur.newEmail]],
                                     sleepSeconds |-> 0])]_vars

C9_Witness ==
  \E p \in Procs : \E r \in DOMAIN h[p].results : \E k \in DOMAIN messages :
    /\ h[p].results[r].message = "Created message"
    /\ h[p].results[r].messageId = k
    /\ ingested[k].classifier = "failed"
    /\ h[p].results[r].isAutomatedResponseOrThankYou = Some(FALSE)
    /\ h[p].results[r].responded = Some(TRUE)
    /\ AutoResponseJobs(k) # {}
    /\ conversations[messages[k].conversationId].status = "open"

\* C6: the columns the handler keeps of the conversation are those of its row
\* when the message is about to be inserted; and after the reopen step a
\* conversation that was closed then is open if the message is not ignorable
\* and the conversation was not AI-assigned or the mode is draft, and is still
\* closed if the message is ignorable or the conversation was AI-assigned and
\* the mode is reply.
C6_ReopenRule ==
  \A p \in Procs :
    LET cur == h[p].cur
        c == cur.conversation
    IN /\ h[p].pc = "insertMsg" =>
            /\ c.status = conversations[c.id].status
            /\ c.assignedToAI = conversations[c.id].assignedToAI
       /\ (h[p].pc = "autoresp" /\ c.status = "closed") =>
            /\ (~cur.shouldIgnore /\ (~c.assignedToAI \/ autoRespond = "draft")) =>
                 conversations[c.id].status = "open"
            /\ (cur.shouldIgnore \/ (c.assignedToAI /\ autoRespond = "reply")) =>
                 conversations[c.id].status = "closed"

C6_Witness ==
  \E p \in Procs :
    /\ h[p].pc = "autoresp" /\ ~h[p].cur.createdConversation
    /\ h[p].cur.conversation.status = "closed" /\ h[p].cur.conversation.assignedToAI
    /\ autoRespond = "draft" /\ ~h[p].cur.shouldIgnore
    /\ conversations[h[p].cur.conversation.id].status = "open"

\* C1: across successive deliveries no gmailMessageId ever has more than one
\* message row; and the loop step of a delivery on a message that is already
\* persisted leaves the message rows, the conversations and the queue as they
\* were and, unless the lookup itself rejects and ends the delivery, records
\* "Skipped - message already exists" for it and moves on.
C1_DedupIdempotence ==
  /\ [](\A m \in DOMAIN threadOf :
          Cardinality({k \in DOMAIN messages : messages[k].gmailMessageId = m}) <= 1)
  /\ [][\A p \in Procs :
          (/\ h[p].pc = "loop"
           /\ h'[p] # h[p]
           /\ \E k \in DOMAIN messages :
                messages[k].gmailMessageId = h[p].messagesAdded[h[p].i].id) =>
            /\ UNCHANGED <<messages, conversations, jobs>>
            /\ h'[p].pc # "raised" =>
                 /\ h'[p].results =
                      Append(h[p].results,
                             [ message |-> "Skipped - message already exists",
                               gmailMessageId |-> h[p].messagesAdded[h[p].i].id,
                               gmailThreadId |-> h[p].messagesAdded[h[p].i].threadId,
                               messageId |-> 0, conversationSlug |-> 0,
                               responded |-> None, isAutomatedResponseOrThankYou |-> None ])
                 /\ h'[p].i = h[p].i + 1]_vars

C1_Witness ==
  \E p, q \in Procs : \E i \in DOMAIN h[p].results : \E j \in DOMAIN h[q].results :
    /\ p < q
    /\ h[p].results[i].message = "Created message"
    /\ h[q].results[j].message = "Skipped - message already exists"
    /\ h[q].results[j].gmailMessageId = h[p].results[i].gmailMessageId
    /\ Cardinality({k \in DOMAIN messages :
                      messages[k].gmailMessageId = h[p].results[i].gmailMessageId}) = 1

\* C2: when deliveries overlap, the message rows of one gmailMessageId never
\* number more than one.
C2_AtMostOneRow ==
  \A k, j \in DOMAIN messages :
    messages[k].gmailMessageId = messages[j].gmailMessageId => k = j

C2_Witness ==
  \E p, q \in Procs : \E r \in DOMAIN h[p].results : \E k \in DOMAIN messages :
    /\ p # q
    /\ ingested[k].by = q
    /\ h[p].results[r].message = "Error processing message"
    /\ h[p].results[r].gmailMessageId = messages[k].gmailMessageId

\* C3: no message row ever has more than one
\* conversations/auto-response.create job, and a row ingested as not ignorable
\* has exactly one once its handling has ended.
C3_AutoResponseExactlyOnce ==
  \A k \in DOMAIN messages :
    /\ Cardinality(AutoResponseJobs(k)) <= 1
    /\ (Ended(k) /\ ~ingested[k].shouldIgnore) => Cardinality(AutoResponseJobs(k)) = 1

\* C4: a message whose id is its thread id is the first message of its
\* conversation: the conversation it is about to be inserted into was created
\* for it and holds no message, and no earlier row shares its conversation.
C4_FirstMessageNewConversation ==
  /\ \A p \in Procs :
       (h[p].pc = "insertMsg" /\ h[p].cur.gmailMessageId = h[p].cur.gmailThreadId) =>
         /\ h[p].cur.createdConversation
         /\ \A j \in DOMAIN messages : messages[j].conversationId # h[p].cur.conversation.id
  /\ \A k \in DOMAIN messages :
       messages[k].gmailMessageId = messages[k].gmailThreadId =>
         \A j \in DOMAIN messages :
           j < k => messages[j].conversationId # messages[k].conversationId

C4_Witness ==
  \E k, j \in DOMAIN messages :
    /\ j < k
    /\ messages[k].gmailMessageId = messages[k].gmailThreadId
    /\ messages[j].gmailThreadId = messages[k].gmailThreadId
    /\ messages[j].conversationId # messages[k].conversationId

\* C5: a message that is not the first of its thread is about to be inserted
\* into the conversation of a persisted row of its thread with the greatest
\* createdAt, whether or not that conversation was merged into another; when
\* no row of its thread is persisted, into a conversation created for it with
\* the defaults of a new one; the row inserted is in that conversation, and no
\* message ends in an error.
C5_AttachToMostRecent ==
  /\ \A p \in Procs :
       LET cur == h[p].cur
           same == {k \in DOMAIN messages : messages[k].gmailThreadId = cur.gmailThreadId}
       IN /\ (h[p].pc = "insertMsg" /\ cur.gmailMessageId # cur.gmailThreadId) =>
               IF same # {}
               THEN /\ ~cur.createdConversation
                    /\ \E k \in same :
                         /\ \A j \in same : messages[j].createdAt <= messages[k].createdAt
                         /\ cur.conversation.id = messages[k].conversationId
               ELSE /\ cur.createdConversation
                    /\ cur.conversation.id = Len(conversations)
                    /\ \A j \in DOMAIN messages : messages[j].conversationId # cur.conversation.id
                    /\ conversations[cur.conversation.id].status =
                         (IF cur.shouldIgnore THEN "closed" ELSE "open")
                    /\ conversations[cur.conversation.id].assignedToId = "none"
                    /\ conversations[cur.conversation.id].mergedIntoId = 0
          /\ cur.newEmail # 0 => messages[cur.newEmail].conversationId = cur.conversation.id
          /\ \A r \in DOMAIN h[p].results :
               h[p].results[r].message # "Error processing message"

C5_Witness ==
  \E p \in Procs : \E k, j \in DOMAIN messages :
    /\ h[p].cur.newEmail # 0 /\ h[p].cur.newEmail # k
    /\ h[p].cur.gmailMessageId # h[p].cur.gmailThreadId
    /\ messages[k].gmailThreadId = h[p].cur.gmailThreadId
    /\ messages[j].gmailThreadId = h[p].cur.gmailThreadId
    /\ messages[j].createdAt < messages[k].createdAt
    /\ messages[j].conversationId # messages[k].conversationId
    /\ messages[h[p].cur.newEmail].conversationId = messages[k].conversationId
    /\ conversations[messages[k].conversationId].mergedIntoId = messages[j].conversationId

\* C10: for every message row whose handling has ended, a
\* conversations/auto-response.create job is queued for it exactly when it
\* was ingested as not ignorable, and the responded flag of its result entry
\* says whether one is queued.
C10_RespondedIffNotIgnorable ==
  \A k \in DOMAIN messages :
    Ended(k) =>
      /\ (AutoResponseJobs(k) # {}) = ~ingested[k].shouldIgnore
      /\ \A p \in Procs : \A r \in DOMAIN h[p].results :
           (h[p].results[r].message = "Created message" /\ h[p].results[r].messageId = k) =>
             h[p].results[r].responded = Some(AutoResponseJobs(k) # {})

\* C11: an invocation that has fetched its history never rejects while a
\* message of the batch is without a result: every error met while a message
\* is processed becomes that message's result entry and the loop goes on.
C11_FailureIsolated ==
  \A p \in Procs :
    h[p].pc = "raised" => Len(h[p].results) = Len(h[p].messagesAdded)

\* C12: the step that ends an invocation after its loop stores the historyId
\* of the payload as the cursor, and the stored cursor is the payload's
\* historyId of the last invocation that ended so, whatever the results of its
\* messages and whichever cursor its history was fetched with.
C12_CursorAdvances ==
  /\ [](\A p \in Procs :
          (h[p].pc = "done" /\ \A q \in Procs : q > p => h[q].pc # "done") =>
            supportEmail.historyId = PayloadHistoryId(p))
  /\ [][\A p \in Procs :
          (h[p].pc = "cursor" /\ h'[p].pc = "done") =>
            supportEmail'.historyId = PayloadHistoryId(p)]_vars

C12_Witness ==
  \E p \in Procs : \E r \in DOMAIN h[p].results :
    /\ h[p].pc = "done"
    /\ h[p].results[r].message = "Error processing message"
    /\ Len(h[p].fetches) = 1
    /\ h[p].fetches[1].historyId = h[p].cached
    /\ h[p].cached # PayloadHistoryId(p)
    /\ supportEmail.historyId = PayloadHistoryId(p)

\* C13: the stored cursor changes only in the step that ends an invocation
\* after its loop, so an invocation that stopped leaves the cursor it read;
\* and when the batch of an invocation that stopped is delivered again, every
\* reference to a message that invocation persisted is recorded as already
\* existing, and no gmailMessageId has two rows.
C13_CrashSafety ==
  /\ [][supportEmail' # supportEmail =>
          \E p \in Procs :
            /\ h[p].pc = "cursor" /\ h[p].i > Len(h[p].messagesAdded)
            /\ h'[p].pc = "done"]_vars
  /\ [](\A p \in Procs :
          h[p].pc = "crashed" =>
            /\ (h[p].fetches # <<>> /\ \A q \in Procs : q > p => h[q].pc = "idle") =>
                 supportEmail.historyId = h[p].cached
            /\ \A q \in Procs : \A r \in DOMAIN h[q].results : \A k \in DOMAIN messages :
                 (/\ q > p
                  /\ h[q].messagesAdded = h[p].messagesAdded
                  /\ ingested[k].by = p
                  /\ h[q].messagesAdded[r].id = messages[k].gmailMessageId
                  /\ h[q].messagesAdded[r].threadId = messages[k].gmailThreadId) =>
                   h[q].results[r].message = "Skipped - message already exists")
  /\ [](\A k, j \in DOMAIN messages :
          messages[k].gmailMessageId = messages[j].gmailMessageId => k = j)

C13_Witness ==
  \E p, q \in Procs : \E k \in DOMAIN messages : \E r \in DOMAIN h[q].results :
    /\ p < q
    /\ h[p].pc = "crashed" /\ h[q].pc = "done"
    /\ Len(h[p].results) < Len(h[p].messagesAdded)
    /\ h[q].messagesAdded = h[p].messagesAdded
    /\ ingested[k].by = p
    /\ h[q].results[r].gmailMessageId = messages[k].gmailMessageId
    /\ h[q].results[r].message = "Skipped - message already exists"
    /\ supportEmail.historyId = PayloadHistoryId(q)

\* C14: an invocation fetches the history at most twice: first with the cursor
\* it read from the record when there is one, else with the payload's; a
\* second time, with the payload's, exactly after a 404 answer to the first.
\* When the first answer is neither 2xx nor 404, or the second is not 2xx, the
\* invocation has rejected with no message processed, no row of its own and
\* the stored cursor as it read it.
C14_CursorResolution ==
  \A p \in Procs :
    LET f == h[p].fetches
        failed == \/ Len(f) = 1 /\ f[1].status # 404 /\ ~(f[1].status \in 200..299)
                  \/ Len(f) = 2 /\ ~(f[2].status \in 200..299)
    IN /\ Len(f) <= 2
       /\ Len(f) >= 1 =>
            f[1].historyId = (IF h[p].cached # 0 THEN h[p].cached ELSE PayloadHistoryId(p))
       /\ Len(f) = 2 => (f[1].status = 404 /\ f[2].historyId = PayloadHistoryId(p))
       /\ (Len(f) = 1 /\ f[1].status = 404) => h[p].pc \in {"fallback", "crashed"}
       /\ (Len(f) >= 1 /\ ~failed /\ f[Len(f)].status # 404) => h[p].pc \notin {"history", "fallback"}
       /\ failed =>
            /\ h[p].pc = "raised"
            /\ h[p].messagesAdded = <<>> /\ h[p].results = <<>>
            /\ \A k \in DOMAIN messages : ingested[k].by # p
            /\ (\A q \in Procs : q > p => h[q].pc = "idle") =>
                 supportEmail.historyId = h[p].cached

C14_Witness ==
  \E p \in Procs : \E r \in DOMAIN h[p].results :
    /\ h[p].pc = "done"
    /\ h[p].cached # 0
    /\ h[p].fetches = << [historyId |-> h[p].cached, status |-> 404],
                         [historyId |-> PayloadHistoryId(p), status |-> 200] >>
    /\ h[p].results[r].message = "Created message"
    /\ supportEmail.historyId = PayloadHistoryId(p)

\* C15: the results of an invocation are, in order, the outcomes of the first
\* references of its history, all of them once it returns after the loop; each
\* carries the ids of its reference and is a skip (no message or thread id,
\* already exists, sent from mailbox), a creation or an error; and the step on
\* a reference without a message id or thread id changes no table and no
\* queue and, unless the process stops, records the skip.
C15_ResultsPerCandidate ==
  /\ [](\A p \in Procs :
          /\ Len(h[p].results) <= Len(h[p].messagesAdded)
          /\ h[p].pc = "done" => Len(h[p].results) = Len(h[p].messagesAdded)
          /\ h[p].pc \in {"loop", "cursor", "done"} => Len(h[p].results) = h[p].i - 1
          /\ \A r \in DOMAIN h[p].results :
               /\ h[p].results[r].gmailMessageId = h[p].messagesAdded[r].id
               /\ h[p].results[r].gmailThreadId = h[p].messagesAdded[r].threadId
               /\ h[p].results[r].message \in
                    { "Skipped - missing message ID or thread ID",
                      "Skipped - message already exists",
                      "Skipped - message sent from mailbox",
                      "Created message", "Error processing message" }
               /\ (h[p].messagesAdded[r].id = 0 \/ h[p].messagesAdded[r].threadId = 0) =>
                    h[p].results[r].message = "Skipped - missing message ID or thread ID")
  /\ [][\A p \in Procs :
          (/\ h[p].pc = "loop" /\ h'[p] # h[p]
           /\ \/ h[p].messagesAdded[h[p].i].id = 0
              \/ h[p].messagesAdded[h[p].i].threadId = 0) =>
            /\ UNCHANGED <<supportEmail, conversations, messages, conversationEvents,
                           realtime, jobs>>
            /\ h'[p].pc # "crashed" => Len(h'[p].results) = Len(h[p].results) + 1]_vars

C15_Witness ==
  \E p \in Procs :
    /\ h[p].pc = "done"
    /\ Len(h[p].results) = 2
    /\ h[p].results[1].message = "Skipped - missing message ID or thread ID"
    /\ h[p].results[2].message = "Created message"
    /\ Len(messages) = 1

\* C16: an invocation is rejected with the non-retriable error exactly when
\* its token does not verify or its claim email is missing or not the
\* expected principal; the rejection is its first step and changes no table
\* and no queue, and a rejected invocation has read no support-email record,
\* fetched no history, processed no message and written nothing.
C16_AuthorizationFirst ==
  /\ [](\A p \in Procs :
          /\ h[p].token # None =>
               (h[p].pc = "rejected") =
                 ~(h[p].token[1].verified /\ h[p].token[1].email = "pubsub@example.com")
          /\ h[p].pc = "rejected" =>
               /\ h[p].returned = "NonRetriableError: Invalid token"
               /\ h[p].cached = 0 /\ h[p].fetches = <<>>
               /\ h[p].messagesAdded = <<>> /\ h[p].results = <<>>
               /\ \A k \in DOMAIN messages : ingested[k].by # p)
  /\ [][\A p \in Procs :
          (h'[p].pc = "rejected" /\ h[p].pc # "rejected") =>
            /\ h[p].pc = "idle"
            /\ UNCHANGED <<supportEmail, conversations, messages, conversationEvents,
                           realtime, jobs>>]_vars

C16_Witness ==
  \E p \in Procs :
    /\ h[p].pc = "rejected"
    /\ h[p].token = Some([verified |-> TRUE, email |-> OtherPrincipal])
    /\ UsableSupportEmail(supportEmail)
    /\ supportEmail.historyId = 1
    /\ messages = <<>> /\ conversations = <<>> /\ jobs = <<>>

\* C17: when the support-email record of the payload's address is missing or
\* lacks a mailbox, the access token or the refresh token, an authorized
\* invocation gets no further than the lookup: it fetches no history and has
\* no message, and it ends by returning the descriptive string (or because the
\* lookup itself rejected or the process stopped); the step that returns the
\* string changes no table and no queue.
C17_NoSupportEmailRecord ==
  /\ [](\A p \in Procs :
          LET usable == /\ supportEmail.found /\ supportEmail.mailbox
                        /\ supportEmail.accessToken /\ supportEmail.refreshToken
          IN /\ ~usable =>
                  /\ h[p].pc \in {"idle", "rejected", "mailbox", "returned", "raised", "crashed"}
                  /\ h[p].fetches = <<>> /\ h[p].messagesAdded = <<>> /\ h[p].results = <<>>
                  /\ messages = <<>> /\ conversations = <<>> /\ jobs = <<>>
             /\ h[p].pc = "returned" =>
                  /\ ~usable
                  /\ h[p].returned = "Valid gmail support email record not found")
  /\ [][\A p \in Procs :
          (h'[p].pc = "returned" /\ h[p].pc # "returned") =>
            /\ h[p].pc = "mailbox"
            /\ UNCHANGED <<supportEmail, conversations, messages, conversationEvents,
                           realtime, jobs>>]_vars

C17_Witness ==
  \E p \in Procs :
    /\ h[p].pc = "returned"
    /\ h[p].returned = "Valid gmail support email record not found"
    /\ supportEmail.found /\ supportEmail.mailbox /\ supportEmail.accessToken
    /\ ~supportEmail.refreshToken
    /\ supportEmail.historyId = 1
    /\ h[p].fetches = <<>>


\* C18: a fetched message whose sender is the mailbox's own address only gets
\* a "sent from mailbox" entry in results: the step that handles it changes no
\* conversation, message, audit row, publish or job, goes on to the next
\* message without a classifier call, and no persisted message has the
\* mailbox's address as its sender.  (A rejected fetch gets the error entry.)
C18_OwnMessageSkipped ==
  /\ [](\A k \in DOMAIN messages : messages[k].emailFrom # SupportAddr)
  /\ [][\A p \in Procs :
          (h[p].pc = "fetch" /\ h[p].cur.from = SupportAddr /\ h'[p] # h[p])
          => /\ UNCHANGED <<conversations, messages, conversationEvents, realtime, jobs, ingested>>
             /\ h'[p].pc \in {"loop", "cursor"}
             /\ h'[p].cur = NoEmail
             /\ Len(h'[p].results) = Len(h[p].results) + 1
             /\ LET entry == h'[p].results[Len(h'[p].results)] IN
                  /\ entry.gmailMessageId = h[p].cur.gmailMessageId
                  /\ entry.gmailThreadId = h[p].cur.gmailThreadId
                  /\ entry.messageId = 0
                  /\ entry.message = IF failures' = failures
                                     THEN "Skipped - message sent from mailbox"
                                     ELSE "Error processing message"
       ]_vars

\* A delivery has skipped a message of the mailbox's own address after another
\* message was ingested.
C18_Witness ==
  /\ messages # <<>>
  /\ \E p \in Procs : \E r \in DOMAIN h[p].results :
       /\ h[p].results[r].message = "Skipped - message sent from mailbox"
       /\ \A k \in DOMAIN messages : messages[k].gmailMessageId # h[p].results[r].gmailMessageId

\* The positions of a Cc header whose address is not the mailbox's own, in any
\* case, and belongs to a staff user.
StaffPositions(cc) ==
  { j \in DOMAIN cc : /\ addressToLowerCase(cc[j]) # addressToLowerCase(SupportAddr)
                      /\ getBasicProfileByEmail(cc[j]) # "none" }

FirstPosition(S) == CHOOSE j \in S : \A k \in S : j <= k

AutoAssigned(log) == SelectSeq(log, LAMBDA e : e.reason = "Auto-assigned based on CC")

\* C19: after a message is created the handler assigns the conversation by Cc
\* exactly when the sender is not staff, the conversation has no assignee and
\* some Cc address other than the mailbox's own (in any case) is a staff
\* user's; the assignee is the user of the first such address in order, the
\* one update appends one audit row with reason "Auto-assigned based on CC"
\* and publishes nothing; no other step changes an assignee.
C19_CcAssignment ==
  [][/\ \A p \in Procs :
          (h[p].pc = "cc" /\ h'[p] # h[p] /\ failures' = failures)
          => LET cur == h[p].cur
                 due == /\ cur.staffUser = "none"
                        /\ conversations[cur.conversation.id].assignedToId = "none"
                        /\ StaffPositions(cur.cc) # {}
             IN /\ (h'[p].pc = "assignCc") <=> due
                /\ ~due => h'[p].pc = "attachments"
                /\ UNCHANGED <<conversations, conversationEvents, realtime, jobs>>
     /\ \A p \in Procs :
          (h[p].pc = "assignCc" /\ h'[p] # h[p] /\ failures' = failures)
          => LET cur == h[p].cur
                 id == cur.conversation.id
                 first == cur.cc[FirstPosition(StaffPositions(cur.cc))]
             IN /\ conversations'[id].assignedToId = getBasicProfileByEmail(first)
                /\ conversations'[id].assignedToAI = FALSE
                /\ \A c \in DOMAIN conversations : c # id => conversations'[c] = conversations[c]
                /\ Len(conversationEvents') = Len(conversationEvents) + 1
                /\ SubSeq(conversationEvents', 1, Len(conversationEvents)) = conversationEvents
                /\ conversationEvents'[Len(conversationEvents')].conversationId = id
                /\ conversationEvents'[Len(conversationEvents')].reason = "Auto-assigned based on CC"
                /\ UNCHANGED <<realtime, jobs, messages>>
     /\ \A c \in DOMAIN conversations :
          conversations'[c].assignedToId # conversations[c].assignedToId
          => \E p \in Procs : /\ h[p].pc = "assignCc" /\ h'[p].pc = "attachments"
                              /\ h[p].cur.conversation.id = c
     /\ AutoAssigned(conversationEvents') # AutoAssigned(conversationEvents)
          => \E p \in Procs : h[p].pc = "assignCc" /\ h'[p].pc = "attachments"
    ]_vars

\* A conversation was assigned by Cc to the staff user and has since received
\* a second message, which left the assignee alone.
C19_Witness ==
  \E e \in DOMAIN conversationEvents :
    LET id == conversationEvents[e].conversationId IN
      /\ conversationEvents[e].reason = "Auto-assigned based on CC"
      /\ conversations[id].assignedToId = "user_staff"
      /\ Len(AutoAssigned(conversationEvents)) = 1
      /\ \E j, k \in DOMAIN messages :
           j # k /\ messages[j].conversationId = id /\ messages[k].conversationId = id
      /\ \A p \in Procs : h[p].pc \in Finished


\* The conversations an update has just closed: not closed before, closed after.
JustClosed == { c \in DOMAIN conversations :
                  conversations[c].status # "closed" /\ conversations'[c].status = "closed" }

\* C20: an update enqueues conversations/embedding.create, for the
\* embeddingConversation job and with the conversation's slug, exactly when it
\* changes the status from a status other than closed to closed; an update
\* that does not set the status, or that sets closed on a closed conversation,
\* enqueues nothing.
C20_EmbeddingOnClose ==
  [][/\ Cardinality(JustClosed) <= 1
     /\ JustClosed = {} => jobs' = jobs
     /\ \A c \in JustClosed :
          jobs' = Append(jobs, [ event |-> "conversations/embedding.create",
                                 job |-> "embeddingConversation",
                                 data |-> [json |-> [conversationSlug |-> SlugOf(c)]],
                                 sleepSeconds |-> 0 ])
    ]_vars

\* Conversation 1 was closed by one update and then updated to closed again:
\* two audit rows, one job.
C20_Witness ==
  /\ Len(conversationEvents) = 2
  /\ \A e \in 1..2 : /\ conversationEvents[e].conversationId = 1
                     /\ "status" \in DOMAIN conversationEvents[e].changes
  /\ conversationEvents[1].changes.status = "open"
  /\ conversationEvents[2].changes.status = "closed"
  /\ conversations[1].status = "closed"
  /\ Len(jobs) = 1
  /\ jobs[1].data.json.conversationSlug = SlugOf(1)


\* A step is an updateConversation call, whose arguments lastUpdate' holds.
UpdateCalled == lastUpdate' # lastUpdate \/ conversationEvents' # conversationEvents

\* What a step published.
Published == SubSeq(realtime', Len(realtime) + 1, Len(realtime'))

\* C21: an update of an existing conversation without skipRealtimeEvents
\* publishes exactly one conversation.updated on the conversation's channel,
\* followed by one conversation.statusChanged on the list channel, with the
\* new status, the assignment and the previous values, exactly when the status
\* changed; with skipRealtimeEvents, or for a missing conversation, nothing is
\* published; no other event name is ever published.
C21_RealtimePublication ==
  /\ [](\A r \in DOMAIN realtime :
          realtime[r].event \in {"conversation.updated", "conversation.statusChanged"})
  /\ [][UpdateCalled =>
          LET u == lastUpdate'
              c == u.id
          IN /\ SubSeq(realtime', 1, Len(realtime)) = realtime
             /\ (~u.found \/ u.skipRealtimeEvents) => realtime' = realtime
             /\ (u.found /\ ~u.skipRealtimeEvents) =>
                  LET changed == conversations'[c].status # conversations[c].status IN
                    /\ Len(Published) = IF changed THEN 2 ELSE 1
                    /\ Published[1].event = "conversation.updated"
                    /\ Published[1].channel = <<"conversation", SlugOf(c)>>
                    /\ Published[1].data.id = c
                    /\ Published[1].data.status = conversations'[c].status
                    /\ changed =>
                         /\ Published[2].event = "conversation.statusChanged"
                         /\ Published[2].channel = <<"conversations">>
                         /\ Published[2].data =
                              [ id |-> c,
                                status |-> conversations'[c].status,
                                assignedToAI |-> conversations'[c].assignedToAI,
                                assignedToId |-> conversations'[c].assignedToId,
                                previousValues |->
                                  [ status |-> conversations[c].status,
                                    assignedToId |-> conversations[c].assignedToId,
                                    assignedToAI |-> conversations[c].assignedToAI ] ]
       ]_vars

\* One update changed a status and published both events; the next one set a
\* status too, with skipRealtimeEvents, and published nothing.
C21_Witness ==
  /\ Len(conversationEvents) = 2
  /\ Len(realtime) = 2
  /\ realtime[2].event = "conversation.statusChanged"
  /\ lastUpdate.found /\ lastUpdate.skipRealtimeEvents
  /\ "status" \in DOMAIN lastUpdate.set

\* C22: an update that sets the status to closed stamps closedAt with the
\* time of the call; an update that sets another status, or none, leaves
\* closedAt as it was; a closedAt the caller gives is written as given; no
\* other conversation's closedAt changes.
C22_ClosedAt ==
  [][(UpdateCalled /\ lastUpdate'.found) =>
       LET u == lastUpdate'
           c == u.id
           explicit == "closedAt" \in DOMAIN u.set
           closing == "status" \in DOMAIN u.set /\ u.set["status"] = "closed"
       IN /\ explicit => conversations'[c].closedAt = u.set["closedAt"]
          /\ (~explicit /\ closing) => conversations'[c].closedAt = u.now
          /\ (~explicit /\ ~closing) => conversations'[c].closedAt = conversations[c].closedAt
          /\ \A d \in DOMAIN conversations :
               d # c => conversations'[d].closedAt = conversations[d].closedAt
    ]_vars

\* A closed conversation was set to open by the last update and still has the
\* closedAt it had.
C22_Witness ==
  /\ lastUpdate.found
  /\ DOMAIN lastUpdate.set = {"status"}
  /\ lastUpdate.set["status"] = "open"
  /\ conversations[lastUpdate.id].status = "open"
  /\ conversations[lastUpdate.id].closedAt = 1
  /\ Len(conversationEvents) = 1
  /\ conversationEvents[1].changes["status"] = "closed"

\* C23: an update of an existing conversation appends one ConversationEvent
\* for it, of type update, with the byUserId and reason of the call and the
\* previous values of those of status, assignedToId and assignedToAI that the
\* update names; a call for a missing id changes nothing; the log only grows:
\* every step keeps the rows it had.
C23_AuditLog ==
  /\ [][/\ Len(conversationEvents') >= Len(conversationEvents)
        /\ SubSeq(conversationEvents', 1, Len(conversationEvents)) = conversationEvents
       ]_vars
  /\ [][UpdateCalled =>
          LET u == lastUpdate'
              c == u.id
          IN IF u.found
             THEN /\ Len(conversationEvents') = Len(conversationEvents) + 1
                  /\ LET e == conversationEvents'[Len(conversationEvents')] IN
                       /\ e.conversationId = c
                       /\ e.type = "update"
                       /\ e.byUserId = u.byUserId
                       /\ e.reason = u.reason
                       /\ DOMAIN e.changes
                            = DOMAIN u.set \cap {"status", "assignedToId", "assignedToAI"}
                       /\ \A k \in DOMAIN e.changes : e.changes[k] = conversations[c][k]
             ELSE UNCHANGED <<conversations, conversationEvents, realtime, jobs>>
       ]_vars

\* Two updates were logged, one by a user with a reason and one by no user,
\* and then a call for a missing id was made.
C23_Witness ==
  /\ Len(conversationEvents) = 2
  /\ ~lastUpdate.found
  /\ \E e \in 1..2 : /\ conversationEvents[e].byUserId = "user_staff"
                     /\ conversationEvents[e].reason = "Closed manually"
                     /\ DOMAIN conversationEvents[e].changes = {"status", "assignedToId"}
  /\ \E e \in 1..2 : conversationEvents[e].byUserId = "none"


\* Does a sequence of job records consist of whole batches: for each, one
\* record per handler of the event's catalog entry, in the catalog's order,
\* all with the payload and the delay of the first?
RECURSIVE WholeBatches(_)
WholeBatches(queue) ==
  \/ queue = <<>>
  \/ LET first == queue[1]
         n == Len(EventJobs(first.event))
     IN /\ Len(queue) >= n
        /\ \A k \in 1..n : /\ queue[k].event = first.event
                           /\ queue[k].job = EventJobs(first.event)[k]
                           /\ queue[k].data = first.data
                           /\ queue[k].sleepSeconds = first.sleepSeconds
        /\ WholeBatches(SubSeq(queue, n + 1, Len(queue)))

\* C24: the queue only ever holds whole batches, whatever calls rejected: each
\* triggerEvent call has put one record per handler of the catalog's entry
\* (six for conversations/message.created), with the same payload and delay,
\* or none; the delay is 0 except for the event sent with sleepSeconds.
C24_AtomicFanOut ==
  /\ [](WholeBatches(jobs))
  /\ [](\A j \in DOMAIN jobs :
          jobs[j].sleepSeconds = IF jobs[j].event = "conversations/email.enqueued"
                                 THEN EMAIL_UNDO_COUNTDOWN_SECONDS ELSE 0)
  /\ [](\A j \in DOMAIN jobs :
          jobs[j].event = "conversations/message.created"
          => Len(SelectSeq(jobs, LAMBDA r : r.event = jobs[j].event /\ r.data = jobs[j].data)) = 6)

\* A call rejected in one of its triggerEvent calls after another had gone
\* through: the six records of message.created are queued, the delayed
\* email.enqueued is not.
C24_Witness ==
  /\ failures < MaxFailures
  /\ Len(messages) = 1
  /\ messages[1].status = "queueing"
  /\ Len(jobs) = 6
  /\ \A j \in DOMAIN jobs : jobs[j].event = "conversations/message.created"


\* What a step enqueued.
Enqueued == SubSeq(jobs', Len(jobs) + 1, Len(jobs'))

\* The events among job records: the batches of an event name, counted by
\* their first handler.
EventsNamed(queue, event) ==
  SelectSeq(queue, LAMBDA r : r.event = event /\ r.job = EventJobs(event)[1])

\* C29: a createConversationMessage call that returns has emitted nothing for
\* a message of status draft; for any other status exactly one
\* conversations/message.created for the new message's id; one
\* conversations/email.enqueued for that id, delayed by the undo window,
\* exactly when the status is queueing; one follower notification exactly when
\* the status is not draft, userId is set and the role is user or staff; and
\* no other event.
C29_MessageEvents ==
  [][(Len(messages') = Len(messages) + 1 /\ failures' = failures) =>
       LET id == Len(messages')
           row == messages'[id]
           created == EventsNamed(Enqueued, "conversations/message.created")
           enqueued == EventsNamed(Enqueued, "conversations/email.enqueued")
           notified == EventsNamed(Enqueued, "conversations/send-follower-notification")
           notifies == row.status # "draft" /\ row.userId # "none" /\ row.role \in {"user", "staff"}
       IN /\ SubSeq(jobs', 1, Len(jobs)) = jobs
          /\ WholeBatches(Enqueued)
          /\ row.status = "draft" => Enqueued = <<>>
          /\ Len(created) = IF row.status = "draft" THEN 0 ELSE 1
          /\ \A k \in DOMAIN created : created[k].data.json.messageId = id
          /\ Len(enqueued) = IF row.status = "queueing" THEN 1 ELSE 0
          /\ \A k \in DOMAIN enqueued :
               /\ enqueued[k].data.json.messageId = id
               /\ enqueued[k].sleepSeconds = EMAIL_UNDO_COUNTDOWN_SECONDS
          /\ Len(notified) = IF notifies THEN 1 ELSE 0
          /\ \A k \in DOMAIN Enqueued :
               Enqueued[k].event \in {"conversations/message.created",
                                      "conversations/email.enqueued",
                                      "conversations/send-follower-notification"}
    ]_vars

\* A draft of a user was created without any event, then a queueing reply of
\* a staff user with its three events.
C29_Witness ==
  /\ failures = MaxFailures
  /\ Len(messages) = 2
  /\ messages[1].status = "draft" /\ messages[1].userId = "user_staff" /\ messages[1].role = "staff"
  /\ messages[2].status = "queueing" /\ messages[2].userId = "user_staff"
  /\ messages[2].role = "staff"
  /\ Len(jobs) = 8
  /\ \A j \in DOMAIN jobs : jobs[j].event # "conversations/embedding.create"


\* The lowercased addresses that occur in the field `field` ("to" or "cc") of
\* message m, as a sequence.
FieldAddresses(m, field) ==
  LET raw == IF field = "to" THEN [k \in DOMAIN messages[m].emailTo |-> messages[m].emailTo[k].address]
             ELSE messages[m].emailCc
  IN [k \in DOMAIN raw |-> addressToLowerCase(raw[k])]

Occurs(a, m) ==
  \E field \in {"to", "cc"} : \E k \in DOMAIN FieldAddresses(m, field) :
    FieldAddresses(m, field)[k] = a

FirstMessageOf(a) == CHOOSE m \in DOMAIN messages : Occurs(a, m) /\ \A n \in 1..(m - 1) : ~Occurs(a, n)

\* Position of the first occurrence of a in a sequence that has it.
FirstIn(seq, a) == CHOOSE k \in DOMAIN seq : seq[k] = a /\ \A j \in 1..(k - 1) : seq[j] # a

\* C27: the list getNonSupportParticipants returns consists of bare addresses
\* (no display names) that occur in the emailTo or emailCc of the
\* conversation's messages, has every such address but the mailbox's support
\* address and the conversation's emailFrom, which it never has, and keeps
\* the order of appearance: by message, and inside one field of a message.
C27_NonSupportParticipants ==
  \A p \in Procs :
    h[p].pc = "returned" =>
      LET result == h[p].results
          has(a) == \E k \in DOMAIN result : result[k] = a
          found == { a \in {CustomerAddr, StaffAddr, SupportAddr, OtherAddr, NoReplyAddr} :
                       \E m \in DOMAIN messages : Occurs(a, m) }
      IN /\ \A k \in DOMAIN result : result[k] \in found
         /\ ~has(SupportAddr) /\ ~has(MixedCaseSupportAddr)
         /\ ~has(conversations[1].emailFrom)
         /\ \A a \in found : a \notin {SupportAddr, conversations[1].emailFrom} => has(a)
         /\ \A a, b \in found :
              (has(a) /\ has(b) /\ FirstMessageOf(a) < FirstMessageOf(b))
              => FirstIn(result, a) < FirstIn(result, b)
         /\ \A a, b \in found : \A field \in {"to", "cc"} :
              LET m == FirstMessageOf(a)
                  list == FieldAddresses(m, field)
              IN (/\ has(a) /\ has(b) /\ a # b /\ FirstMessageOf(b) = m
                  /\ \E k \in DOMAIN list : list[k] = a
                  /\ \E k \in DOMAIN list : list[k] = b
                  /\ \A other \in {"to", "cc"} \ {field} :
                       \A k \in DOMAIN FieldAddresses(m, other) :
                         FieldAddresses(m, other)[k] \notin {a, b}
                  /\ FirstIn(list, a) < FirstIn(list, b))
                 => FirstIn(result, a) < FirstIn(result, b)

\* A call returned three addresses in order for two messages whose recipients
\* include the support address with a display name and in another case, and
\* the conversation's sender.
C27_Witness ==
  \E p \in Procs :
    /\ h[p].pc = "returned"
    /\ h[p].results = <<OtherAddr, StaffAddr, NoReplyAddr>>
    /\ Len(messages) = 2
    /\ \E k \in DOMAIN messages[1].emailTo : messages[1].emailTo[k].address = SupportAddr
    /\ \E k \in DOMAIN messages[2].emailTo : messages[2].emailTo[k].address = CustomerAddr
    /\ messages[2].emailCc = <<OtherAddr, CustomerAddr>>


CatalogHandlers ==
  UNION { {EventJobs(event)[k] : k \in DOMAIN EventJobs(event)} :
          event \in { "files/preview.generate", "conversations/embedding.create",
                      "conversations/message.created", "conversations/email.enqueued",
                      "conversations/auto-response.create",
                      "conversations/human-support-requested",
                      "conversations/send-follower-notification" } }

\* C26: the webhook handler calls no handler of the catalog directly;
\* downstream work starts only from the queue.
C26_QueueOnly == \A p \in Procs : h[p].direct \cap CatalogHandlers = {}


\* The step of createReply call p that commits its transaction.
Commits(p) == h[p].pc = "commit" /\ h'[p].pc = "done"

InReplyTransaction(p) == h[p].pc \in {"assign", "insert", "files", "close", "discard", "commit"}

IsDraft(m, conversationId) ==
  m.conversationId = conversationId /\ m.role = "ai_assistant" /\ m.status = "draft"

\* C28: createReply is atomic. No step of a call other than its commit changes
\* the committed conversations, messages, audit rows or files, so a call that
\* fails at any step leaves none of its writes; the commit brings the reply
\* message together with the auto-assignment, the file attachment, the close
\* on reply and the discarding of drafts; a call for a conversation that does
\* not exist raises and writes nothing at all.
C28_ReplyAtomic ==
  [][\A p \in Procs :
       LET a == h[p].args
           c == a.conversationId
           id == Len(messages) + 1
       IN /\ (InReplyTransaction(p) /\ ~Commits(p)) => UNCHANGED tables
          /\ (h[p].pc \in {"idle", "begin"} /\ h'[p].pc # h[p].pc) => UNCHANGED tables
          /\ (h[p].pc = "idle" /\ h'[p].pc = "raised") =>
               /\ h'[p].args.conversationId \notin DOMAIN conversations
               /\ h'[p].returned = "Error: Conversation not found"
               /\ UNCHANGED <<tables, jobs, realtime>>
          /\ h'[p].pc = "rolledback" => h'[p].returned = "none"
          /\ Commits(p) =>
               /\ Len(messages') = id
               /\ messages'[id] = ReplyRow(a)
               /\ (a.shouldAutoAssign /\ a.user # "none" /\ conversations[c].assignedToId = "none")
                    => (conversations'[c].assignedToId = a.user /\ ~conversations'[c].assignedToAI)
               /\ (a.close /\ conversations[c].status # "spam")
                    => (conversations'[c].status = "closed" /\ conversations'[c].closedAt # 0)
               /\ [slug |-> "file_1", messageId |-> id] \in files'
               /\ \A k \in DOMAIN messages' : ~IsDraft(messages'[k], c)
               /\ Len(conversationEvents') - Len(conversationEvents) =
                    1 + (IF a.shouldAutoAssign /\ a.user # "none"
                              /\ conversations[c].assignedToId = "none" THEN 1 ELSE 0)
                      + (IF a.close /\ conversations[c].status # "spam" THEN 1 ELSE 0)]_vars

\* A first reply committed with its assignment and its close, and a second one
\* rolled back after its events were sent: its message is nowhere.
C28_Witness ==
  /\ h[1].pc = "done" /\ h[2].pc = "rolledback"
  /\ h[1].args.conversationId = 1 /\ h[2].args.conversationId = 1
  /\ conversations[1].status = "closed" /\ conversations[1].assignedToId = "user_staff"
  /\ Len(SelectSeq(messages, LAMBDA m : m.role = "staff")) = 1
  /\ \E j \in DOMAIN jobs :
       /\ jobs[j].job = "postEmailToGmail"
       /\ jobs[j].data.json.messageId > Len(SelectSeq(messages, LAMBDA m : m.role = "staff"))

Inbound == {k \in DOMAIN messages : messages[k].gmailMessageId # 0}

\* C31: all persisted inbound messages that share a gmailThreadId belong to
\* the same conversation.
C31_ThreadConsistency ==
  \A j, k \in Inbound :
    messages[j].gmailThreadId = messages[k].gmailThreadId
      => messages[j].conversationId = messages[k].conversationId

\* C32: the stored history cursor never moves backwards.
C32_CursorMonotone ==
  [][supportEmail'.historyId >= supportEmail.historyId]_vars

\* The conversations a delivery has created and is still to give a message.
BeingFilled ==
  { h[p].cur.conversation.id :
      p \in {q \in Procs : h[q].cur.createdConversation /\ h[q].cur.newEmail = 0} }

\* C35: every conversation that ingestion created owns a message once the
\* processing of the message that triggered its creation has ended.
C35_NoEmptyConversation ==
  \A c \in DOMAIN conversations :
    c \notin BeingFilled => \E k \in DOMAIN messages : messages[k].conversationId = c

\* C37: ingestion never schedules outbound mail: whatever was delivered and
\* persisted, with role user and no status or role staff and status sent, the
\* queue holds no conversations/email.enqueued job.
C37_NoOutboundFromIngestion ==
  /\ \A k \in Inbound :
       \/ messages[k].role = "user" /\ messages[k].status = "null"
       \/ messages[k].role = "staff" /\ messages[k].status = "sent"
  /\ \A j \in DOMAIN jobs :
       /\ jobs[j].event # "conversations/email.enqueued"
       /\ jobs[j].job # "postEmailToGmail"

\* A staff member's email and a customer's are persisted and their events are
\* in the queue.
C37_Witness ==
  /\ \E k \in Inbound : messages[k].role = "staff" /\ messages[k].status = "sent"
  /\ \E k \in Inbound : messages[k].role = "user" /\ messages[k].status = "null"
  /\ \E j \in DOMAIN jobs : jobs[j].event = "conversations/send-follower-notification"
  /\ \E j \in DOMAIN jobs : jobs[j].event = "conversations/auto-response.create"
  /\ \A p \in Procs : h[p].pc = "done"


\* The jobs of createConversationMessage's events that name a message.
MessageJobs ==
  { j \in DOMAIN jobs :
      /\ jobs[j].event \in {"conversations/message.created", "conversations/email.enqueued"}
      /\ "messageId" \in DOMAIN jobs[j].data.json }

\* C34: once no createReply call is under way, every message.created and
\* email.enqueued job in the queue names a message that is persisted.
C34_JobsOfPersistedMessages ==
  (\A p \in Procs : h[p].pc \in {"idle"} \cup ReplyEnded)
    => \A j \in MessageJobs : jobs[j].data.json.messageId \in DOMAIN messages

\* C33: no inbound message is lost.  Once a delivery has returned, every
\* message its history listed is persisted or still lies after the stored
\* cursor, where a later delivery's history fetch lists it again.
C33_NoMessageLost ==
  \A p \in Procs :
    h[p].pc = "done" =>
      \A i \in DOMAIN h[p].messagesAdded :
        \/ ExistingEmail(messages, h[p].messagesAdded[i].id)
        \/ supportEmail.historyId < AddedAt(h[p].messagesAdded[i].id)

\* The drafts of the assistant in conversation c.
DraftsOf(c) ==
  {k \in DOMAIN messages : IsDraft(messages[k], c)}

\* C38: at most one message of the assistant per conversation is a draft,
\* and once generateDraftResponse has returned a draft for a conversation
\* and no call is under way, exactly one is.
C38_OneDraft ==
  \A c \in DOMAIN conversations :
    /\ Cardinality(DraftsOf(c)) <= 1
    /\ ( /\ \A p \in Procs : h[p].pc \in {"idle"} \cup DraftEnded
         /\ \E p \in Procs : h[p].pc = "done" /\ h[p].conversationId = c )
       => Cardinality(DraftsOf(c)) = 1

C39_ClosedHasClosedAt ==
  \A c \in DOMAIN conversations :
    conversations[c].status = "closed" => conversations[c].closedAt # 0

\* Conversation 1 was closed, has been opened and then closed again by a
\* reply; conversation 2 was created closed by ingestion.
C39_Witness ==
  /\ Len(conversations) = 2
  /\ conversations[1].status = "closed" /\ conversations[1].closedAt # 0
  /\ conversations[2].status = "closed" /\ conversations[2].closedAt # 0
  /\ h[1].pc = "done" /\ h[1].args.close
  /\ \E k \in DOMAIN conversationEvents :
       /\ conversationEvents[k].conversationId = 1
       /\ "status" \in DOMAIN conversationEvents[k].changes
       /\ conversationEvents[k].changes["status"] = "closed"
  /\ \E k \in DOMAIN conversationEvents :
       /\ conversationEvents[k].conversationId = 1
       /\ "status" \in DOMAIN conversationEvents[k].changes
       /\ conversationEvents[k].changes["status"] = "open"
       /\ conversationEvents[k].byUserId = "user_staff"
       /\ conversationEvents[k].reason = "none"

\* C40: when the ingestion of a message that is not ignorable passes its
\* reopen decision, the last step that touches the status, for a conversation
\* that is then neither assigned to the AI nor spam, that conversation is
\* open, whatever was written to it since the delivery read it.
C40_OpenAfterIngestion ==
  [][\A p \in Deliveries :
       ( /\ h[p].pc = "reopen" /\ h'[p].pc = "autoresp"
         /\ ~h[p].cur.shouldIgnore
         /\ ~conversations'[h[p].cur.conversation.id].assignedToAI
         /\ conversations'[h[p].cur.conversation.id].status # "spam" )
       => conversations'[h[p].cur.conversation.id].status = "open"]_vars

====
